---- MODULE Spec2Model ----
(***************************************************************************)
(* A model of the file consumer of pkg/stanza/fileconsumer:                *)
(*   - Manager.readLostFiles (file_other.go): the classification of the    *)
(*     previous poll's readers into lost / not lost, and the concurrent    *)
(*     drain of the lost ones behind a WaitGroup;                          *)
(*   - reader.Factory.NewReader / NewReaderFromMetadata (factory.go): the  *)
(*     reconstruction of a Reader from a file and its Metadata;            *)
(* and of the otelcol OTTL context of pkg/ottl/contexts/internal/ctxotelcol: *)
(*   - PathGetSetter and the accessors behind it (otelcol.go, client.go,   *)
(*     grpc.go): which paths give a GetSetter, what its Getter returns and *)
(*     what its Setter does.                                               *)
(***************************************************************************)
EXTENDS Integers, Sequences, FiniteSets, TLC

\* ------------------------------------------------------------------ bounds

\* Longest PreviousPollFiles / CurrentPollFiles the tracker holds.
MaxPrev == 2
MaxCur == 2

\* Longest file content, and largest configured FingerprintSize.
MaxFileSize == 2
MaxFingerprintSize == 2

\* Largest Offset a stored Metadata holds: one beyond the longest file, for a
\* file that shrank under its checkpoint.
MaxOffset == MaxFileSize + 1

\* File names and fingerprint bytes the readers are drawn from.
Names == {"a", "b"}
Bytes == {1, 2}

\* The fingerprints of the tracked readers: a file's first byte, and its
\* first two once it has grown.  <<1>> is a prefix of <<1, 2>> and not the
\* other way round.
Fingerprints == {<<1>>, <<1, 2>>}

VARIABLES
    factory,            \* m.readerFactory: the Factory's configuration
    previousPollFiles,  \* m.tracker.PreviousPollFiles(): readers of poll N-1
    currentPollFiles,   \* m.tracker.CurrentPollFiles(): readers of poll N
    pc,                 \* where the poll's goroutine stands
    lostReaders,        \* readLostFiles' lostReaders: indices of previousPollFiles
    spawned,            \* how many of lostReaders have had their goroutine started
    lostWG,             \* the sync.WaitGroup's counter
    wpc,                \* each lost-file goroutine's position, by index of previousPollFiles
    outcome,            \* how each reader's ReadToEnd ended
    readToEndCalls,     \* ReadToEnd invocations on each previous-poll reader
    readingFiles,       \* telemetryBuilder.FileconsumerReadingFiles, net of its value at the call
    curRead,            \* whether the poll has gone on to read the current-poll readers
    file,               \* the *os.File handed to the Factory: its content
    m,                  \* the *Metadata handed to NewReaderFromMetadata (the Reader embeds it)
    mAtCall,            \* m as it was when the Factory was called
    fpc,                \* "ready" before the Factory call, then the operation called
    rdr,                \* the *Reader returned: NoReader (nil), or its own fields
    err,                \* the error returned ("none": nil; "panic": the call panicked)
    ext,                \* the calls the Factory call made outside itself, and what they answered
    enableOTelColContext,   \* the feature gate ottl.contexts.enableOTelColContext
    path,               \* the ottl.Path handed to PathGetSetter
    getSetter,          \* the GetSetter PathGetSetter returned (NoGetSetter: nil)
    pathErr,            \* the error PathGetSetter returned ("none": nil)
    ctx,                \* the context.Context of the request the statement runs on
    got,                \* what the Getter returned
    setErr,             \* the error the Setter returned ("none": nil, or not called)
    gotAfter,           \* what the Getter returned when called again after the Setter
    op,                 \* the last operation on the otelcol context
    impl,               \* which copy of compressingWriter is at work
    encoder,            \* c.encoder: the zstd encoder's state
    base,               \* c.base: the files of the underlying writer, each the bytes it holds
    baseClosed,         \* whether c.base.Close() was called
    dirty,              \* c.dirty
    stickyErr,          \* c.err ("none": nil)
    written,            \* the payloads of the Writes that returned no error, one after the other
    writes,             \* Write calls made
    ret,                \* what the last call returned: n, and its errors (none: nil)
    cwop,               \* the last call on the compressingWriter
    span,               \* the ptrace.Span handed to makeHTTP: attributes in order, kind, events
    filtered,           \* the map of attributes makeHTTP returned
    info,               \* the *awsxray.HTTPData makeHTTP returned (NilHTTPData: nil)
    hpc                 \* "ready" before makeHTTP is called, "makeHTTP" after

factoryVars == <<factory, file, m, mAtCall, fpc, rdr, err, ext>>
trackerVars == <<previousPollFiles, currentPollFiles>>
lostVars == <<pc, lostReaders, spawned, lostWG, wpc, outcome, readToEndCalls, readingFiles, curRead>>
otelcolVars == <<enableOTelColContext, path, getSetter, pathErr, ctx, got, setErr, gotAfter, op>>
writerVars == <<impl, encoder, base, baseClosed, dirty, stickyErr, written, writes, ret, cwop>>
httpVars == <<span, filtered, info, hpc>>
vars == <<factoryVars, trackerVars, lostVars, otelcolVars, writerVars, httpVars>>

\* ----------------------------------------------------------- fingerprints

\* Fingerprint.StartsWith(old): old is a byte-prefix of the receiver.
StartsWith(fp, old) ==
    /\ Len(old) <= Len(fp)
    /\ \A k \in 1..Len(old) : fp[k] = old[k]

\* Reader.NameEquals(other).
NameEquals(new, old) == new.name = old.name

\* Reader.Validate(): whether the reader's open handle still shows the content
\* its fingerprint was taken from (FALSE: the file was truncated in place).
Validate(old) == old.valid

\* ---------------------------------------------------------------- Factory

\* The Factory fields the model reads.  HasHeaderConfig: HeaderConfig # nil.
FactoryConfigs ==
    [FromBeginning : BOOLEAN, FingerprintSize : 1..MaxFingerprintSize,
     HasHeaderConfig : BOOLEAN, DeleteAtEOF : BOOLEAN]

SeqsOfBytes(n) == UNION {[1..k -> Bytes] : k \in 0..n}

\* Files, by content; Stat() reports the content's length.
Files == [content : SeqsOfBytes(MaxFileSize)]
FileSize(f) == Len(f.content)

\* Attribute maps: the keys a resolver yields, a stored value and a freshly
\* resolved one.  A map is [nil, kv]: nil is Go's nil map, which reads as
\* empty and cannot be assigned to.
AttrKeys == {"k1", "k2"}
AttrMaps(v) == UNION {[K -> {v}] : K \in SUBSET AttrKeys}
NilMap == [nil |-> TRUE, kv |-> <<>>]
StoredAttrs == [nil : {FALSE}, kv : AttrMaps("old")] \cup {NilMap}
ResolvedAttrs == [nil : {FALSE}, kv : AttrMaps("new")]

\* What Attributes.Resolve(file) returns: the attributes, or an error.
ResolveOutcomes == [failed : {FALSE}, attrs : ResolvedAttrs] \cup {[failed |-> TRUE, attrs |-> NilMap]}

\* Metadata: the fields NewReaderFromMetadata reads or writes.
Metadatas ==
    [Fingerprint : SeqsOfBytes(MaxFileSize), Offset : 0..MaxOffset,
     HeaderFinalized : BOOLEAN, FileAttributes : StoredAttrs]

NoReader == [nil |-> TRUE, hasHeaderReader |-> FALSE]

\* fingerprint.NewFromFile(file, size, ...): the first size bytes of the file,
\* or all of it when it is shorter.
NewFromFile(f, size) ==
    SubSeq(f.content, 1, IF size < FileSize(f) THEN size ELSE FileSize(f))

\* maps.Copy(dst, src): every key of src is set in dst, the others are kept.
MapsCopy(dst, src) ==
    [nil |-> FALSE,
     kv |-> [k \in DOMAIN dst.kv \cup DOMAIN src.kv |->
                IF k \in DOMAIN src.kv THEN src.kv[k] ELSE dst.kv[k]]]

\* The calls a construction makes outside the Factory: how often it called
\* fingerprint.NewFromFile (reread), file.Stat (stat), header.NewReader
\* (header) and Attributes.Resolve (resolve), which of them returned an error
\* ("none": none did), and the attributes the last Resolve returned.
Calls(reread, stat, header, resolve, failed, resolved) ==
    [reread |-> reread, stat |-> stat, header |-> header, resolve |-> resolve,
     failed |-> failed, resolved |-> resolved]

NoCalls == Calls(0, 0, 0, 0, "none", NilMap)

\* What a Factory call leaves behind: the Metadata as the call left it, the
\* Reader and the error returned, and the calls it made.
Returns(meta, r, e, x) == [m |-> meta, rdr |-> r, err |-> e, ext |-> x]

\* A starting offset that resumes a zero Offset at 0 whatever FromBeginning is.
StartOffsetNoTail(f, offset, fileSize) == offset

\* A starting offset that restarts at 0 under FromBeginning whatever the
\* stored Offset is.
StartOffsetRestart(f, offset, fileSize) ==
    IF f.FromBeginning THEN 0
    ELSE IF offset = 0 THEN fileSize ELSE offset

\* "Decide where to start reading": the Offset when it is not zero, else 0
\* under FromBeginning and the file's size when tailing.
StartOffset(f, offset, fileSize) ==
    IF offset = 0
    THEN IF f.FromBeginning THEN 0 ELSE fileSize
    ELSE offset

\* What the steps of a construction that reach outside the Factory answer:
\* failAt names the step that fails if it is reached, "reread"
\* (fingerprint.NewFromFile), "stat" (file.Stat) or "header"
\* (header.NewReader), and resolved is what Attributes.Resolve returns.  Only
\* the first failing step of a call shows, so one failing step is drawn.
Envs ==
    [failAt : {"reread", "stat", "header"}, resolved : {[failed |-> FALSE, attrs |-> NilMap]}]
    \cup [failAt : {"none"}, resolved : ResolveOutcomes]

\* Variants of NewReaderFromMetadata that differ from it in one step each:
\* "noprefix" builds the Reader without comparing the shorter fingerprint with
\* the stored one, "swallow" goes on after a failed file.Stat, and "header"
\* attaches a header reader whatever HeaderFinalized says.
NewReaderFromMetadataVariant(f, fl, meta, env, v) ==
    LET shrink == Len(meta.Fingerprint) > f.FingerprintSize
        shorter == NewFromFile(fl, f.FingerprintSize)
        m1 == IF shrink THEN [meta EXCEPT !.Fingerprint = shorter] ELSE meta
        fileSize == FileSize(fl)
        m2 == IF m1.Offset > fileSize THEN [m1 EXCEPT !.Offset = 0] ELSE m1
        m3 == [m2 EXCEPT !.Offset = StartOffset(f, m2.Offset, fileSize)]
        header == f.HasHeaderConfig /\ (v = "header" \/ ~m3.HeaderFinalized)
        rr == IF shrink THEN 1 ELSE 0
        hh == IF header THEN 1 ELSE 0
        statFailed == IF env.failAt = "stat" THEN "stat" ELSE "none"
    IN  IF shrink /\ env.failAt = "reread"
            THEN Returns(meta, NoReader, "reread fingerprint",
                         Calls(rr, 0, 0, 0, "reread", NilMap))
        ELSE IF v # "noprefix" /\ shrink /\ ~StartsWith(meta.Fingerprint, shorter)
            THEN Returns(meta, NoReader, "file truncated", Calls(rr, 0, 0, 0, "none", NilMap))
        ELSE IF v # "swallow" /\ env.failAt = "stat"
            THEN Returns(m1, NoReader, "stat", Calls(rr, 1, 0, 0, "stat", NilMap))
        ELSE IF header /\ env.failAt = "header"
            THEN Returns(m3, NoReader, "header", Calls(rr, 1, hh, 0, "header", NilMap))
        ELSE IF env.resolved.failed
            THEN Returns(m3, NoReader, "resolve", Calls(rr, 1, hh, 1, "resolve", NilMap))
        ELSE IF m3.FileAttributes.nil /\ DOMAIN env.resolved.attrs.kv # {}
            THEN Returns(m3, NoReader, "panic",
                         Calls(rr, 1, hh, 1, statFailed, env.resolved.attrs))
        ELSE Returns([m3 EXCEPT !.FileAttributes =
                        IF m3.FileAttributes.nil THEN @ ELSE MapsCopy(@, env.resolved.attrs)],
                     [nil |-> FALSE, hasHeaderReader |-> header], "none",
                     Calls(rr, 1, hh, 1, statFailed, env.resolved.attrs))

NewReaderFromMetadataNoPrefixCheck(f, fl, meta, env) ==
    NewReaderFromMetadataVariant(f, fl, meta, env, "noprefix")

NewReaderFromMetadataSwallowsStat(f, fl, meta, env) ==
    NewReaderFromMetadataVariant(f, fl, meta, env, "swallow")

NewReaderFromMetadataAlwaysHeader(f, fl, meta, env) ==
    NewReaderFromMetadataVariant(f, fl, meta, env, "header")

\* NewReaderFromMetadata(file, meta) under Factory f, in environment env.
NewReaderFromMetadataOf(f, fl, meta, env) ==
    LET shrink == Len(meta.Fingerprint) > f.FingerprintSize
        shorter == NewFromFile(fl, f.FingerprintSize)
        m1 == IF shrink THEN [meta EXCEPT !.Fingerprint = shorter] ELSE meta
        fileSize == FileSize(fl)
        m2 == IF m1.Offset > fileSize THEN [m1 EXCEPT !.Offset = 0] ELSE m1
        m3 == [m2 EXCEPT !.Offset = StartOffset(f, m2.Offset, fileSize)]
        header == f.HasHeaderConfig /\ ~m3.HeaderFinalized
        rr == IF shrink THEN 1 ELSE 0
        hh == IF header THEN 1 ELSE 0
    IN  IF shrink /\ env.failAt = "reread"
            THEN Returns(meta, NoReader, "reread fingerprint",
                         Calls(rr, 0, 0, 0, "reread", NilMap))
        ELSE IF shrink /\ ~StartsWith(meta.Fingerprint, shorter)
            THEN Returns(meta, NoReader, "file truncated", Calls(rr, 0, 0, 0, "none", NilMap))
        ELSE IF env.failAt = "stat"
            THEN Returns(m1, NoReader, "stat", Calls(rr, 1, 0, 0, "stat", NilMap))
        ELSE IF header /\ env.failAt = "header"
            THEN Returns(m3, NoReader, "header", Calls(rr, 1, hh, 0, "header", NilMap))
        ELSE IF env.resolved.failed
            THEN Returns(m3, NoReader, "resolve", Calls(rr, 1, hh, 1, "resolve", NilMap))
        ELSE IF m3.FileAttributes.nil /\ DOMAIN env.resolved.attrs.kv # {}
            THEN Returns(m3, NoReader, "panic",
                         Calls(rr, 1, hh, 1, "none", env.resolved.attrs))
        ELSE Returns([m3 EXCEPT !.FileAttributes =
                        IF m3.FileAttributes.nil THEN @ ELSE MapsCopy(@, env.resolved.attrs)],
                     [nil |-> FALSE, hasHeaderReader |-> header], "none",
                     Calls(rr, 1, hh, 1, "none", env.resolved.attrs))

\* The Factory's part of the state before any call.
InitFactoryIdle(fs, ms) ==
    /\ file \in fs
    /\ m \in ms
    /\ mAtCall = m
    /\ fpc = "ready"
    /\ rdr = NoReader
    /\ err = "none"
    /\ ext = NoCalls

InitFactory ==
    /\ factory \in {c \in FactoryConfigs : ~c.DeleteAtEOF}
    /\ InitFactoryIdle(Files, Metadatas)

\* Factory.NewReaderFromMetadata(file, m).
NewReaderFromMetadata ==
    /\ fpc = "ready"
    /\ \E env \in Envs :
        LET res == NewReaderFromMetadataOf(factory, file, m, env)
        IN  /\ m' = res.m
            /\ rdr' = res.rdr
            /\ err' = res.err
            /\ ext' = res.ext
    /\ fpc' = "NewReaderFromMetadata"
    /\ UNCHANGED <<factory, file, mAtCall>>

\* Factory.NewReader(file, fp): Attributes.Resolve, a fresh Metadata holding
\* fp and the attributes, then NewReaderFromMetadata.  fp is the stored
\* Metadata's fingerprint.
NewReader ==
    /\ fpc = "ready"
    /\ \E resolved \in ResolveOutcomes :
        IF resolved.failed
        THEN /\ err' = "resolve"
             /\ ext' = Calls(0, 0, 0, 1, "resolve", NilMap)
             /\ UNCHANGED <<m, mAtCall, rdr>>
        ELSE \E env \in Envs :
                LET fresh == [Fingerprint |-> m.Fingerprint, Offset |-> 0,
                              HeaderFinalized |-> FALSE, FileAttributes |-> resolved.attrs]
                    res == NewReaderFromMetadataOf(factory, file, fresh, env)
                IN  /\ mAtCall' = fresh
                    /\ m' = res.m
                    /\ rdr' = res.rdr
                    /\ err' = res.err
                    /\ ext' = [res.ext EXCEPT !.resolve = @ + 1]
    /\ fpc' = "NewReader"
    /\ UNCHANGED <<factory, file>>

\* ------------------------------------------------- the otelcol OTTL context

\* Longest path handed to PathGetSetter, in segments.
MaxPathLen == 4

\* The segment names a path is made of.  Each of them is unknown where the
\* context does not expect it.
SegNames == {"client", "grpc", "addr", "auth", "metadata", "attributes"}

\* An ottl.Key: a string key or an integer index.
StrKey(x) == [str |-> TRUE, s |-> x, i |-> 0]
IntKey(n) == [str |-> FALSE, s |-> "", i |-> n]

\* path.Keys(): nil when the segment carries no key, else one of: a map key,
\* a map key and an index, a map key and two indexes.
NoKeys == <<>>
KeyLists == {<<StrKey("k")>>,
             <<StrKey("k"), IntKey(0)>>,
             <<StrKey("k"), IntKey(0), IntKey(0)>>}

\* An ottl.Path after the context name: its segments' names, and the keys one
\* of its segments carries (keyAt = 0: no segment carries keys).
Paths ==
    UNION {{[names |-> ns, keyAt |-> 0, keys |-> NoKeys] : ns \in [1..n -> SegNames]}
            \cup [names : [1..n -> SegNames], keyAt : 1..n, keys : KeyLists]
           : n \in 1..MaxPathLen}

\* The segment of path p at position pos: path.Name(), path.Keys(), and
\* whether path.Next() is not nil.
PathName(p, pos) == p.names[pos]
PathKeys(p, pos) == IF p.keyAt = pos THEN p.keys ELSE NoKeys
HasNext(p, pos) == pos < Len(p.names)

\* What PathGetSetter returns: a GetSetter (the accessor that built it and the
\* keys it closed over) or nil, and an error ("none": nil).
NoGetSetter == [nil |-> TRUE, kind |-> "", keys |-> NoKeys]
Accessor(kind, keys) ==
    [gs |-> [nil |-> FALSE, kind |-> kind, keys |-> keys], err |-> "none"]
InvalidPath == [gs |-> NoGetSetter, err |-> "invalid path"]
ContextDisabled == [gs |-> NoGetSetter, err |-> "context disabled"]

accessClientAddr(p, pos) ==
    IF HasNext(p, pos) THEN InvalidPath
    ELSE IF PathKeys(p, pos) # NoKeys THEN InvalidPath
    ELSE Accessor("accessClientAddr", NoKeys)

accessClientMetadata(p, pos) ==
    IF HasNext(p, pos) THEN InvalidPath
    ELSE IF PathKeys(p, pos) = NoKeys THEN Accessor("accessClientMetadataKeys", NoKeys)
    ELSE Accessor("accessClientMetadataKey", PathKeys(p, pos))

accessClientAuth(p, pos) ==
    IF ~HasNext(p, pos) THEN InvalidPath
    ELSE IF PathName(p, pos + 1) = "attributes"
    THEN IF PathKeys(p, pos + 1) = NoKeys
         THEN Accessor("accessClientAuthAttributesKeys", NoKeys)
         ELSE Accessor("accessClientAuthAttributesKey", PathKeys(p, pos + 1))
    ELSE InvalidPath

accessClient(p, pos) ==
    IF ~HasNext(p, pos) THEN InvalidPath
    ELSE CASE PathName(p, pos + 1) = "addr" -> accessClientAddr(p, pos + 1)
           [] PathName(p, pos + 1) = "auth" -> accessClientAuth(p, pos + 1)
           [] PathName(p, pos + 1) = "metadata" -> accessClientMetadata(p, pos + 1)
           [] OTHER -> InvalidPath

accessGRPC(p, pos) ==
    IF ~HasNext(p, pos) THEN InvalidPath
    ELSE IF PathName(p, pos + 1) = "metadata"
    THEN IF PathKeys(p, pos + 1) = NoKeys
         THEN Accessor("accessGRPCMetadataKeys", NoKeys)
         ELSE Accessor("accessGRPCMetadataKey", PathKeys(p, pos + 1))
    ELSE InvalidPath

\* A PathGetSetter that does not ask the feature gate.
PathGetSetterNoGate(enabled, p) ==
    CASE PathName(p, 1) = "client" -> accessClient(p, 1)
      [] PathName(p, 1) = "grpc" -> accessGRPC(p, 1)
      [] OTHER -> InvalidPath

\* PathGetSetter(path) with the feature gate enabled or not.
PathGetSetterOf(enabled, p) ==
    IF ~enabled THEN ContextDisabled
    ELSE CASE PathName(p, 1) = "client" -> accessClient(p, 1)
           [] PathName(p, 1) = "grpc" -> accessGRPC(p, 1)
           [] OTHER -> InvalidPath

\* What a Getter returns: nil, a string, a slice of strings, a map, or an
\* error.
Nil == [kind |-> "nil", s |-> <<>>, m |-> <<>>]
Str(x) == [kind |-> "str", s |-> <<x>>, m |-> <<>>]
Slice(l) == [kind |-> "slice", s |-> l, m |-> <<>>]
Map(f) == [kind |-> "map", s |-> <<>>, m |-> f]
Err(msg) == [kind |-> "err", s |-> <<msg>>, m |-> <<>>]

\* What the context.Context of a request holds: the client.Info (Addr, ""
\* for nil; Metadata; Auth, nil or its attributes, a string or a []string
\* each) and the incoming gRPC metadata, if any.
Addrs == {"", "10.0.0.1:4317"}
MdMaps == {<<>>, [k \in {"k"} |-> <<"v", "w">>]}
AuthDatas == {[nil |-> TRUE, attrs |-> <<>>],
              [nil |-> FALSE, attrs |-> [k \in {"k"} |-> Str("s")]],
              [nil |-> FALSE, attrs |-> [k \in {"k"} |-> Slice(<<"s", "t">>)]]}
GRPCMDs == {[ok |-> FALSE, md |-> <<>>]} \cup [ok : {TRUE}, md : MdMaps]
Ctxs == [addr : Addrs, metadata : MdMaps, auth : AuthDatas, grpc : GRPCMDs]

\* The context.Context before any request.
Background ==
    [addr |-> "", metadata |-> <<>>, auth |-> [nil |-> TRUE, attrs |-> <<>>],
     grpc |-> [ok |-> FALSE, md |-> <<>>]]

\* client.Metadata.Get / metadata.MD.Get: the values under a key, none when
\* the key is absent.
MdGet(md, k) == IF k \in DOMAIN md THEN md[k] ELSE <<>>

\* convertClientMetadataToMap / convertGRPCMetadataToMap.
MdToMap(md) == Map([k \in DOMAIN md |-> Slice(md[k])])

\* ctxutil.GetSliceIndexFromKeys / GetSliceValue on a slice of strings: the
\* element under the first key, which has to be an index within the slice
\* and the only key.
SliceValue(keys, strSlice) ==
    IF keys[1].str THEN Err("non-integer indexing is not supported")
    ELSE IF keys[1].i < 0 \/ keys[1].i >= Len(strSlice) THEN Err("index out of bounds")
    ELSE IF Len(keys) > 1 THEN Err("type cannot be indexed")
    ELSE Str(strSlice[keys[1].i + 1])

getIndexableValueFromStringArr(keys, strSlice) ==
    IF Len(keys) = 0 THEN Slice(strSlice)
    ELSE IF Len(keys) > 1 THEN Err("cannot index into string slice more than once")
    ELSE SliceValue(keys, strSlice)

\* getAuthAttributeValue: the attribute as a value, the empty value when the
\* AuthData has no such attribute.
getAuthAttributeValue(attrs, k) == IF k \in DOMAIN attrs THEN attrs[k] ELSE Nil

\* convertAuthDataToMap.
convertAuthDataToMap(auth) ==
    IF auth.nil THEN Map(<<>>)
    ELSE Map([k \in DOMAIN auth.attrs |-> getAuthAttributeValue(auth.attrs, k)])

\* The Getter of a GetSetter, called with context c.
GetterOf(gs, c) ==
    LET keys == gs.keys
        rest == SubSeq(keys, 2, Len(keys))
        noStringKey == Err("non-string indexing is not supported")
    IN  CASE gs.kind = "accessClientAddr" ->
                IF c.addr = "" THEN Nil ELSE Str(c.addr)
          [] gs.kind = "accessClientMetadataKeys" -> MdToMap(c.metadata)
          [] gs.kind = "accessClientMetadataKey" ->
                IF Len(keys) = 0 THEN Err("cannot get map value without keys")
                ELSE IF ~keys[1].str THEN noStringKey
                ELSE IF Len(MdGet(c.metadata, keys[1].s)) = 0 THEN Nil
                ELSE getIndexableValueFromStringArr(rest, MdGet(c.metadata, keys[1].s))
          [] gs.kind = "accessClientAuthAttributesKeys" -> convertAuthDataToMap(c.auth)
          [] gs.kind = "accessClientAuthAttributesKey" ->
                IF Len(keys) = 0 THEN Err("cannot get map value without keys")
                ELSE IF ~keys[1].str THEN noStringKey
                ELSE IF c.auth.nil THEN Nil
                ELSE LET attrVal == getAuthAttributeValue(c.auth.attrs, keys[1].s)
                     IN  IF Len(keys) > 1
                         THEN IF attrVal.kind = "slice" THEN SliceValue(rest, attrVal.s)
                              ELSE Err("attribute value is not indexable")
                         ELSE attrVal
          [] gs.kind = "accessGRPCMetadataKeys" ->
                IF ~c.grpc.ok THEN Map(<<>>) ELSE MdToMap(c.grpc.md)
          [] gs.kind = "accessGRPCMetadataKey" ->
                IF Len(keys) = 0 THEN Err("cannot get map value without keys")
                ELSE IF ~c.grpc.ok THEN Nil
                ELSE IF ~keys[1].str THEN noStringKey
                ELSE IF Len(MdGet(c.grpc.md, keys[1].s)) = 0 THEN Nil
                ELSE getIndexableValueFromStringArr(rest, MdGet(c.grpc.md, keys[1].s))

\* The path a GetSetter's Setter names in its error.
ReadOnlyPath(gs) ==
    CASE gs.kind = "accessClientAddr" -> "otelcol.client.addr"
      [] gs.kind \in {"accessClientMetadataKeys", "accessClientMetadataKey"} ->
            "otelcol.client.metadata"
      [] gs.kind \in {"accessClientAuthAttributesKeys", "accessClientAuthAttributesKey"} ->
            "otelcol.client.auth.attributes"
      [] gs.kind \in {"accessGRPCMetadataKeys", "accessGRPCMetadataKey"} ->
            "otelcol.grpc.metadata"

\* The values a statement hands to a Setter.
SetValues == {"10.0.0.2:4317"}

\* A Setter that stores the value as the client's address and returns no
\* error.
SetterWrites(gs, c, val) == [ctx |-> [c EXCEPT !.addr = val], err |-> "none"]

\* The Setter of a GetSetter, called with context c and value val: the
\* context as the call leaves it, and the error returned.
SetterOf(gs, c, val) == [ctx |-> c, err |-> ReadOnlyPath(gs)]

\* The context's part of the state before PathGetSetter is called.
InitOtelcolIdle(ps) ==
    /\ enableOTelColContext = TRUE
    /\ path \in ps
    /\ getSetter = NoGetSetter
    /\ pathErr = "none"
    /\ ctx = Background
    /\ got = Nil
    /\ setErr = "none"
    /\ gotAfter = Nil
    /\ op = "init"

\* featuregate.GlobalRegistry().Set: the operator turns the gate on or off
\* before the statements are parsed.
SetGate(b) ==
    /\ op \in {"init", "SetGate"}
    /\ enableOTelColContext' = b
    /\ op' = "SetGate"
    /\ UNCHANGED <<path, getSetter, pathErr, ctx, got, setErr, gotAfter>>

\* PathGetSetter(path).
PathGetSetter ==
    /\ op \in {"init", "SetGate"}
    /\ LET res == PathGetSetterOf(enableOTelColContext, path)
       IN  /\ getSetter' = res.gs
           /\ pathErr' = res.err
    /\ op' = "PathGetSetter"
    /\ UNCHANGED <<enableOTelColContext, path, ctx, got, setErr, gotAfter>>

\* A statement is run on a request: the GetSetter's Getter is called with the
\* request's context.
Getter ==
    /\ op = "PathGetSetter"
    /\ ~getSetter.nil
    /\ \E c \in Ctxs :
        /\ ctx' = c
        /\ got' = GetterOf(getSetter, c)
    /\ op' = "Getter"
    /\ UNCHANGED <<enableOTelColContext, path, getSetter, pathErr, setErr, gotAfter>>

\* The GetSetter's Setter is called with the same context and a value.
Setter ==
    /\ op = "Getter"
    /\ \E val \in SetValues :
        LET res == SetterOf(getSetter, ctx, val)
        IN  /\ ctx' = res.ctx
            /\ setErr' = res.err
    /\ op' = "Setter"
    /\ UNCHANGED <<enableOTelColContext, path, getSetter, pathErr, got, gotAfter>>

\* The Getter is called again with the context the Setter was called with.
GetterAfter ==
    /\ op = "Setter"
    /\ gotAfter' = GetterOf(getSetter, ctx)
    /\ op' = "GetterAfter"
    /\ UNCHANGED <<enableOTelColContext, path, getSetter, pathErr, ctx, got, setErr>>

\* ------------------------------------------ the file exporter's compressingWriter

\* Most Write calls made on one compressingWriter.
MaxWrites == 2

\* The payloads handed to Write.
Payloads == {<<1>>, <<2>>}

\* The two copies of compressingWriter: the one that ends a Write with
\* flushFrame (compression_writer.go) and the one that ends it with
\* closeAndResetEncoder.
Impls == {"flushFrame", "closeAndResetEncoder"}

\* What the zstd encoder hands to the underlying writer: a frame header, a
\* block of data, and the last-block marker with the checksum that ends a
\* frame.
FrameHeader == [t |-> "header", d |-> <<>>]
Block(d) == [t |-> "block", d |-> d]
FrameEnd == [t |-> "end", d |-> <<>>]

\* A zstd.Encoder: the data it has taken and not yet handed on, whether it
\* has begun a frame that it has not ended, and whether it was closed.
NewEncoder == [buf |-> <<>>, open |-> FALSE, closed |-> FALSE]

\* Encoder.Write(p): the encoder takes the data.
EncoderWrite(e, p) == [e EXCEPT !.buf = @ \o p]

\* Encoder.Flush(): the data taken so far goes out as a block of the current
\* frame, behind the frame's header when it is the frame's first block; the
\* frame stays open.
EncoderFlush(e) ==
    IF e.buf = <<>> THEN [enc |-> e, out |-> <<>>]
    ELSE [enc |-> [e EXCEPT !.buf = <<>>, !.open = TRUE],
          out |-> (IF e.open THEN <<>> ELSE <<FrameHeader>>) \o <<Block(e.buf)>>]

\* Encoder.Close(): the frame is ended, after what is left of its data; an
\* encoder that has taken no data since it was made or reset writes nothing.
EncoderClose(e) ==
    IF e.closed \/ (~e.open /\ e.buf = <<>>)
    THEN [enc |-> [e EXCEPT !.closed = TRUE], out |-> <<>>]
    ELSE [enc |-> [buf |-> <<>>, open |-> FALSE, closed |-> TRUE],
          out |-> (IF e.open THEN <<>> ELSE <<FrameHeader>>)
                    \o (IF e.buf = <<>> THEN <<>> ELSE <<Block(e.buf)>>)
                    \o <<FrameEnd>>]

\* The underlying writer takes bytes into the file it writes at present, the
\* last of its files.
BaseWrite(b, out) == [b EXCEPT ![Len(b)] = @ \o out]

\* What a zstd decoder makes of the bytes of one file, from position k on,
\* inside a frame or between frames: the data of the frames, and whether
\* every frame it met was complete.
RECURSIVE Decode(_, _, _)
Decode(bytes, k, inFrame) ==
    IF k > Len(bytes) THEN [ok |-> ~inFrame, data |-> <<>>]
    ELSE LET rest(f) == Decode(bytes, k + 1, f)
         IN  CASE bytes[k].t = "header" ->
                    IF inFrame THEN [ok |-> FALSE, data |-> <<>>] ELSE rest(TRUE)
               [] bytes[k].t = "block" ->
                    IF ~inFrame THEN [ok |-> FALSE, data |-> <<>>]
                    ELSE [ok |-> rest(TRUE).ok, data |-> bytes[k].d \o rest(TRUE).data]
               [] bytes[k].t = "end" ->
                    IF ~inFrame THEN [ok |-> FALSE, data |-> <<>>] ELSE rest(FALSE)

\* The files of the underlying writer, one after the other.
RECURSIVE Flatten(_, _)
Flatten(b, k) == IF k > Len(b) THEN <<>> ELSE b[k] \o Flatten(b, k + 1)

\* errors.Join: the errors that are not nil, in order.
Join(e1, e2) ==
    (IF e1 = "none" THEN <<>> ELSE <<e1>>) \o (IF e2 = "none" THEN <<>> ELSE <<e2>>)

\* What a call on the compressingWriter returns, and how it leaves the
\* writer's fields and the underlying writer.
CallResult(n, e, enc, b, d, sticky) ==
    [n |-> n, err |-> e, encoder |-> enc, base |-> b, dirty |-> d, stickyErr |-> sticky]

\* flushFrame (compression_writer.go) with its Flush failing or not.
flushFrame(enc, b, d, fails) ==
    IF ~d THEN [err |-> "none", encoder |-> enc, base |-> b, dirty |-> d]
    ELSE IF fails THEN [err |-> "flush", encoder |-> enc, base |-> b, dirty |-> d]
    ELSE [err |-> "none", encoder |-> EncoderFlush(enc).enc,
          base |-> BaseWrite(b, EncoderFlush(enc).out), dirty |-> FALSE]

\* closeAndResetEncoder with the encoder's Close failing or not.
closeAndResetEncoder(enc, b, d, fails) ==
    IF fails THEN [err |-> "encoder close", encoder |-> enc, base |-> b, dirty |-> d]
    ELSE [err |-> "none", encoder |-> NewEncoder,
          base |-> BaseWrite(b, EncoderClose(enc).out), dirty |-> FALSE]

\* A Write that goes on after an error: it does not look at the sticky error.
WriteNotSticky(im, enc, b, d, sticky, p, failAt) ==
    IF failAt = "write" \/ enc.closed
    THEN CallResult(0, "encoder write", enc, b, d, "encoder write")
    ELSE LET taken == EncoderWrite(enc, p)
             fin == IF im = "flushFrame"
                    THEN flushFrame(taken, b, TRUE, failAt = "finish")
                    ELSE closeAndResetEncoder(taken, b, d, failAt = "finish")
         IN  CallResult(Len(p), fin.err, fin.encoder, fin.base, fin.dirty, fin.err)

\* A Write that returns the payload's length without handing it to the
\* encoder.
WriteDropsPayload(im, enc, b, d, sticky, p, failAt) ==
    IF sticky # "none" THEN CallResult(0, sticky, enc, b, d, sticky)
    ELSE CallResult(Len(p), "none", enc, b, d, sticky)

\* Write(p) of copy im: failAt names the step that fails, the encoder's Write
\* ("write") or the step that ends the frame ("finish").
WriteOf(im, enc, b, d, sticky, p, failAt) ==
    IF sticky # "none" THEN CallResult(0, sticky, enc, b, d, sticky)
    ELSE IF failAt = "write" \/ enc.closed
    THEN CallResult(0, "encoder write", enc, b, d, "encoder write")
    ELSE LET taken == EncoderWrite(enc, p)
             fin == IF im = "flushFrame"
                    THEN flushFrame(taken, b, TRUE, failAt = "finish")
                    ELSE closeAndResetEncoder(taken, b, d, failAt = "finish")
         IN  CallResult(Len(p), fin.err, fin.encoder, fin.base, fin.dirty,
                        IF fin.err # "none" THEN fin.err ELSE sticky)

\* flush() of copy im, called by the flusher goroutine.
flushOf(im, enc, b, d, fails) ==
    IF im = "flushFrame" THEN flushFrame(enc, b, d, fails)
    ELSE IF ~d THEN [err |-> "none", encoder |-> enc, base |-> b, dirty |-> d]
    ELSE closeAndResetEncoder(enc, b, d, fails)

\* Close() of copy im: whether it calls the encoder's Close.
ClosesEncoder(im, d, sticky) ==
    IF im = "flushFrame" THEN d \/ sticky = "none" ELSE TRUE

\* The writer's part of the state before any call: newCompressingWriter has
\* returned.
InitWriterIdle(ims) ==
    /\ impl \in ims
    /\ encoder = NewEncoder
    /\ base = <<(<<>>)>>
    /\ baseClosed = FALSE
    /\ dirty = FALSE
    /\ stickyErr = "none"
    /\ written = <<>>
    /\ writes = 0
    /\ ret = [n |-> 0, err |-> <<>>]
    /\ cwop = "newCompressingWriter"

\* Write(p).
Write ==
    /\ cwop # "Close"
    /\ writes < MaxWrites
    /\ \E p \in Payloads, failAt \in {"none", "write", "finish"} :
        LET res == WriteOf(impl, encoder, base, dirty, stickyErr, p, failAt)
        IN  /\ encoder' = res.encoder
            /\ base' = res.base
            /\ dirty' = res.dirty
            /\ stickyErr' = res.stickyErr
            /\ ret' = [n |-> res.n, err |-> Join(res.err, "none")]
            /\ written' = IF res.err = "none" THEN written \o p ELSE written
    /\ writes' = writes + 1
    /\ cwop' = "Write"
    /\ UNCHANGED <<impl, baseClosed>>

\* A flush() that forgets the sticky error.
FlushClearsError ==
    /\ cwop # "Close"
    /\ \E fails \in BOOLEAN :
        LET res == flushOf(impl, encoder, base, dirty, fails)
        IN  /\ encoder' = res.encoder
            /\ base' = res.base
            /\ dirty' = res.dirty
            /\ ret' = [n |-> 0, err |-> Join(res.err, "none")]
    /\ stickyErr' = "none"
    /\ cwop' = "flush"
    /\ UNCHANGED <<impl, baseClosed, written, writes>>

\* flush().
Flush ==
    /\ cwop # "Close"
    /\ \E fails \in BOOLEAN :
        LET res == flushOf(impl, encoder, base, dirty, fails)
        IN  /\ encoder' = res.encoder
            /\ base' = res.base
            /\ dirty' = res.dirty
            /\ ret' = [n |-> 0, err |-> Join(res.err, "none")]
    /\ cwop' = "flush"
    /\ UNCHANGED <<impl, baseClosed, stickyErr, written, writes>>

\* The underlying writer rotates between two calls: what is written from now
\* on goes to a new file.
Rotate ==
    /\ cwop \in {"Write", "flush"}
    /\ base[Len(base)] # <<>>
    /\ base' = Append(base, <<>>)
    /\ cwop' = "rotate"
    /\ UNCHANGED <<impl, encoder, baseClosed, dirty, stickyErr, written, writes, ret>>

\* Close(): the encoder's Close, when it is called, and the underlying
\* writer's Close, each failing or not.
Close ==
    /\ cwop # "Close"
    /\ \E encFails, baseFails \in BOOLEAN :
        LET call == ClosesEncoder(impl, dirty, stickyErr)
            ok == call /\ ~encFails
            encoderErr == IF call /\ encFails THEN "encoder close" ELSE "none"
            baseErr == IF baseFails THEN "base close" ELSE "none"
        IN  /\ encoder' = IF ok THEN EncoderClose(encoder).enc
                          ELSE IF call THEN [encoder EXCEPT !.closed = TRUE]
                          ELSE encoder
            /\ base' = IF ok THEN BaseWrite(base, EncoderClose(encoder).out) ELSE base
            /\ ret' = [n |-> 0, err |-> Join(encoderErr, baseErr)]
    /\ baseClosed' = TRUE
    /\ cwop' = "Close"
    /\ UNCHANGED <<impl, dirty, stickyErr, written, writes>>

\* ------------------------------------------ the X-Ray exporter's makeHTTP

\* Most attributes on one span.
MaxAttrs == 3

\* pcommon.Value: a string or an integer.  Str() of a value that is no string
\* is "", Int() of a value that is no integer is 0.
StrVal(x) == [type |-> "Str", str |-> x, int |-> 0]
IntVal(n) == [type |-> "Int", str |-> "", int |-> n]
ValueStr(v) == IF v.type = "Str" THEN v.str ELSE ""
ValueInt(v) == IF v.type = "Int" THEN v.int ELSE 0

\* The attribute keys makeHTTP names, the two extractResponseSizeFromAttributes
\* reads, and one it knows nothing of.
HTTPKeys ==
    {"http.request.method", "user_agent.original", "http.response.status_code",
     "url.full", "url.scheme", "url.path", "url.query",
     "server.address", "server.port", "host.name",
     "network.peer.address", "client.address"}
EventKeys == {"message.type", "messaging.message.body.size"}
SpanKeys == HTTPKeys \cup EventKeys \cup {"app.tag"}

\* The values an attribute of each key takes.
AttrValues(key) ==
    CASE key = "http.request.method" -> {StrVal("GET")}
      [] key = "user_agent.original" -> {StrVal("curl")}
      [] key = "http.response.status_code" -> {IntVal(200)}
      [] key = "url.full" -> {StrVal("https://api/full")}
      [] key = "url.scheme" -> {StrVal("https")}
      [] key = "url.path" -> {StrVal("/users")}
      [] key = "url.query" -> {StrVal("a=1"), StrVal("?a=1")}
      [] key = "server.address" -> {StrVal("api")}
      [] key = "server.port" -> {IntVal(80), IntVal(8080), StrVal("443")}
      [] key = "host.name" -> {StrVal("box")}
      [] key = "network.peer.address" -> {StrVal("10.0.0.1"), StrVal("peer.local")}
      [] key = "client.address" -> {StrVal("192.0.2.7"), StrVal("client.local")}
      [] key = "message.type" -> {StrVal("RECEIVED"), StrVal("SENT")}
      [] key = "messaging.message.body.size" -> {IntVal(5)}
      [] OTHER -> {StrVal("blue")}

\* net.ParseIP(s) != nil.
ParseIP(s) == s \in {"10.0.0.1", "192.0.2.7"}

\* strconv.FormatInt(n, 10).
FormatInt(n) ==
    CASE n = 0 -> "0" [] n = 80 -> "80" [] n = 443 -> "443" [] n = 8080 -> "8080"

\* strings.HasPrefix(query, "?").
HasQuestionMark(query) == query \in {"?a=1"}

\* A pcommon.Map in its order: attributes of distinct keys.
Attr(key, value) == [key |-> key, value |-> value]
AllAttrs == UNION {{Attr(k, v) : v \in AttrValues(k)} : k \in SpanKeys}
AttrSeqs(n) ==
    {s \in UNION {[1..k -> AllAttrs] : k \in 0..n} :
        \A i, j \in 1..Len(s) : i # j => s[i].key # s[j].key}

\* Map.Get(key): the value, or none.
AttrGet(attrs, key) ==
    IF \E i \in 1..Len(attrs) : attrs[i].key = key
    THEN <<attrs[CHOOSE i \in 1..Len(attrs) : attrs[i].key = key].value>>
    ELSE <<>>

\* The span events a span carries: none, one that reports a received message,
\* or a sent one followed by a received one.
ReceivedEvent ==
    <<Attr("message.type", StrVal("RECEIVED")),
      Attr("messaging.message.body.size", IntVal(7))>>
SentEvent ==
    <<Attr("message.type", StrVal("SENT")),
      Attr("messaging.message.body.size", IntVal(9))>>
EventLists == {<<>>, <<ReceivedEvent>>, <<SentEvent, ReceivedEvent>>}

Spans == [attrs : AttrSeqs(MaxAttrs), kind : {"Server", "Client"}, events : EventLists]

\* A map with key k set to v.
Put(f, k, v) == [x \in DOMAIN f \cup {k} |-> IF x = k THEN v ELSE f[x]]

\* extractResponseSizeFromAttributes.
extractResponseSizeFromAttributes(attributes) ==
    LET typeVal == AttrGet(attributes, "message.type")
        sizeVal == AttrGet(attributes, "messaging.message.body.size")
    IN  IF typeVal # <<>> /\ ValueStr(typeVal[1]) = "RECEIVED" /\ sizeVal # <<>>
        THEN ValueInt(sizeVal[1])
        ELSE 0

\* The loop of extractResponseSizeFromEvents over the events from i on.
RECURSIVE EventSizeFrom(_, _)
EventSizeFrom(events, i) ==
    IF i > Len(events) THEN 0
    ELSE IF extractResponseSizeFromAttributes(events[i]) # 0
    THEN extractResponseSizeFromAttributes(events[i])
    ELSE EventSizeFrom(events, i + 1)

extractResponseSizeFromEvents(sp) ==
    IF extractResponseSizeFromAttributes(sp.attrs) # 0
    THEN extractResponseSizeFromAttributes(sp.attrs)
    ELSE EventSizeFrom(sp.events, 1)

\* urlParts[key], or the default when the key is not there.
PartOr(urlParts, key, default) ==
    IF key \in DOMAIN urlParts THEN urlParts[key] ELSE default

\* What both constructors append to scheme://host: the port unless it is empty
\* or the scheme's own, the path or "/", and the query behind a "?".  The URL
\* is the sequence of the pieces that are concatenated.
URLFrom(urlParts, host) ==
    LET scheme == PartOr(urlParts, "url.scheme", "http")
        port == PartOr(urlParts, "server.port", "")
        query == PartOr(urlParts, "url.query", "")
    IN  <<scheme, "://", host>>
        \o (IF /\ port # ""
               /\ (scheme # "http" \/ port # "80")
               /\ (scheme # "https" \/ port # "443")
            THEN <<":", port>> ELSE <<>>)
        \o <<PartOr(urlParts, "url.path", "/")>>
        \o (IF "url.query" \notin DOMAIN urlParts THEN <<>>
            ELSE IF HasQuestionMark(query) THEN <<query>>
            ELSE <<"?", query>>)

constructClientURL(urlParts) ==
    IF "url.full" \in DOMAIN urlParts THEN <<urlParts["url.full"]>>
    ELSE URLFrom(urlParts, PartOr(urlParts, "server.address", ""))

constructServerURL(urlParts) ==
    IF "url.full" \in DOMAIN urlParts THEN <<urlParts["url.full"]>>
    ELSE URLFrom(urlParts,
                 PartOr(urlParts, "server.address", PartOr(urlParts, "host.name", "")))

\* makeHTTP's locals before the loop.  A pointer field of awsxray.HTTPData is
\* <<>> when nil and <<v>> when set.
LoopStart ==
    [Method |-> <<>>, UserAgent |-> <<>>, Status |-> <<>>, ClientIP |-> <<>>,
     urlParts |-> <<>>, filtered |-> <<>>,
     hasHTTP |-> FALSE, hasHTTPRequestURLAttributes |-> FALSE,
     hasNetPeerAddr |-> FALSE]

\* One turn of the loop over span.Attributes(): the switch on the key.
Switch(st, key, value) ==
    CASE key = "http.request.method" ->
            [st EXCEPT !.Method = <<ValueStr(value)>>, !.hasHTTP = TRUE]
      [] key = "user_agent.original" ->
            [st EXCEPT !.UserAgent = <<ValueStr(value)>>, !.hasHTTP = TRUE]
      [] key = "http.response.status_code" ->
            [st EXCEPT !.Status = <<ValueInt(value)>>, !.hasHTTP = TRUE]
      [] key = "url.full" ->
            [st EXCEPT !.urlParts = Put(@, key, ValueStr(value)), !.hasHTTP = TRUE,
                       !.hasHTTPRequestURLAttributes = TRUE]
      [] key \in {"url.scheme", "url.path", "url.query"} ->
            [st EXCEPT !.urlParts = Put(@, key, ValueStr(value)), !.hasHTTP = TRUE]
      [] key \in {"server.address", "host.name"} ->
            [st EXCEPT !.urlParts = Put(@, key, ValueStr(value)),
                       !.hasHTTPRequestURLAttributes = TRUE]
      [] key = "server.port" ->
            [st EXCEPT !.urlParts =
                Put(@, key, IF ValueStr(value) = "" THEN FormatInt(ValueInt(value))
                            ELSE ValueStr(value))]
      [] key = "network.peer.address" ->
            IF ParseIP(ValueStr(value))
            THEN [st EXCEPT !.ClientIP = IF @ = <<>> THEN <<ValueStr(value)>> ELSE @,
                            !.hasHTTP = TRUE,
                            !.hasHTTPRequestURLAttributes = TRUE,
                            !.hasNetPeerAddr = TRUE]
            ELSE st
      [] key = "client.address" ->
            IF ParseIP(ValueStr(value))
            THEN [st EXCEPT !.ClientIP = <<ValueStr(value)>>, !.hasHTTP = TRUE]
            ELSE st
      [] OTHER -> [st EXCEPT !.filtered = Put(@, key, value)]

\* The loop over span.Attributes() from position i on.
RECURSIVE Loop(_, _, _)
Loop(attrs, i, st) ==
    IF i > Len(attrs) THEN st
    ELSE Loop(attrs, i + 1, Switch(st, attrs[i].key, attrs[i].value))

\* The *awsxray.HTTPData makeHTTP returns: nil, or the request and response
\* fields it filled in.
NilHTTPData ==
    [nil |-> TRUE, Method |-> <<>>, UserAgent |-> <<>>, Status |-> <<>>,
     ClientIP |-> <<>>, XForwardedFor |-> <<>>, URL |-> <<>>, ContentLength |-> <<>>]

\* makeHTTP(span): the filtered map and the HTTP data.
makeHTTP(sp) ==
    LET st == Loop(sp.attrs, 1, LoopStart)
    IN  IF Len(sp.attrs) = 0 THEN [filtered |-> <<>>, info |-> NilHTTPData]
        ELSE IF ~st.hasHTTP THEN [filtered |-> st.filtered, info |-> NilHTTPData]
        ELSE [filtered |-> st.filtered,
              info |->
                [nil |-> FALSE,
                 Method |-> st.Method,
                 UserAgent |-> st.UserAgent,
                 Status |-> st.Status,
                 ClientIP |-> st.ClientIP,
                 XForwardedFor |->
                    IF ~st.hasNetPeerAddr /\ st.ClientIP # <<>> THEN <<TRUE>> ELSE <<>>,
                 URL |->
                    IF ~st.hasHTTPRequestURLAttributes THEN <<>>
                    ELSE IF sp.kind = "Server" THEN <<constructServerURL(st.urlParts)>>
                    ELSE <<constructClientURL(st.urlParts)>>,
                 ContentLength |-> <<extractResponseSizeFromEvents(sp)>>]]

\* The translator's part of the state before makeHTTP is called on a span.
InitHTTPIdle(sps) ==
    /\ span \in sps
    /\ filtered = <<>>
    /\ info = NilHTTPData
    /\ hpc = "ready"

\* makeHTTP is called on the span.
MakeHTTP ==
    /\ hpc = "ready"
    /\ filtered' = makeHTTP(span).filtered
    /\ info' = makeHTTP(span).info
    /\ hpc' = "makeHTTP"
    /\ UNCHANGED span

\* ---------------------------------------------------------- readLostFiles

\* The readers of one poll.  An old reader carries what Validate() answers
\* during the call.
OldReaders == [name : Names, fp : Fingerprints, valid : BOOLEAN]
NewReaders == [name : Names, fp : Fingerprints]

SeqsUpTo(S, n) == UNION {[1..k -> S] : k \in 0..n}

\* A variant of the inner loop that looks at the first current reader only.
ClearedFirstOnly(old, cur, j) ==
    IF j > Len(cur) THEN FALSE
    ELSE \/ StartsWith(cur[j].fp, old.fp)
         \/ NameEquals(cur[j], old) /\ ~Validate(old)

\* A variant of the inner loop that tests the name before the fingerprint.
RECURSIVE ClearedNameFirst(_, _, _)
ClearedNameFirst(old, cur, j) ==
    IF j > Len(cur) THEN FALSE
    ELSE IF ~NameEquals(cur[j], old) THEN ClearedNameFirst(old, cur, j + 1)
    ELSE IF StartsWith(cur[j].fp, old.fp) THEN TRUE
    ELSE IF ~Validate(old) THEN TRUE
    ELSE ClearedNameFirst(old, cur, j + 1)

\* A variant that takes Validate() = TRUE (moved, not truncated) as clearing old.
RECURSIVE ClearedValidateInverted(_, _, _)
ClearedValidateInverted(old, cur, j) ==
    IF j > Len(cur) THEN FALSE
    ELSE IF StartsWith(cur[j].fp, old.fp) THEN TRUE
    ELSE IF ~NameEquals(cur[j], old) THEN ClearedValidateInverted(old, cur, j + 1)
    ELSE IF Validate(old) THEN TRUE
    ELSE ClearedValidateInverted(old, cur, j + 1)

\* A variant that lets any same-name partner clear old, moved or truncated.
RECURSIVE ClearedBySameName(_, _, _)
ClearedBySameName(old, cur, j) ==
    IF j > Len(cur) THEN FALSE
    ELSE IF StartsWith(cur[j].fp, old.fp) THEN TRUE
    ELSE IF ~NameEquals(cur[j], old) THEN ClearedBySameName(old, cur, j + 1)
    ELSE TRUE

\* A variant that tests the prefix the other way round: the new fingerprint
\* a prefix of the old one.
RECURSIVE ClearedPrefixReversed(_, _, _)
ClearedPrefixReversed(old, cur, j) ==
    IF j > Len(cur) THEN FALSE
    ELSE IF StartsWith(old.fp, cur[j].fp) THEN TRUE
    ELSE IF ~NameEquals(cur[j], old) THEN ClearedPrefixReversed(old, cur, j + 1)
    ELSE IF ~Validate(old) THEN TRUE
    ELSE ClearedPrefixReversed(old, cur, j + 1)

\* A variant of the inner loop in which a partner of the same name settles
\* the matter: old is cleared when it was truncated and lost when it was not,
\* without looking at the partners behind.
RECURSIVE ClearedNameMatchDecides(_, _, _)
ClearedNameMatchDecides(old, cur, j) ==
    IF j > Len(cur) THEN FALSE
    ELSE IF StartsWith(cur[j].fp, old.fp) THEN TRUE
    ELSE IF ~NameEquals(cur[j], old) THEN ClearedNameMatchDecides(old, cur, j + 1)
    ELSE ~Validate(old)

\* The inner loop of readLostFiles over CurrentPollFiles from position j on:
\* TRUE when some partner clears old (continue OUTER), FALSE when the loop
\* runs out and old is appended to lostReaders.
RECURSIVE Cleared(_, _, _)
Cleared(old, cur, j) ==
    IF j > Len(cur) THEN FALSE
    ELSE IF StartsWith(cur[j].fp, old.fp) THEN TRUE
    ELSE IF ~NameEquals(cur[j], old) THEN Cleared(old, cur, j + 1)
    ELSE IF ~Validate(old) THEN TRUE
    ELSE Cleared(old, cur, j + 1)

\* The branch of the inner loop that clears old, from position j on: "prefix"
\* (the fingerprint test, logged as a file that grew or moved), "truncated"
\* (same name, Validate() false), or "none" when the loop runs out.
RECURSIVE ClearedBy(_, _, _)
ClearedBy(old, cur, j) ==
    IF j > Len(cur) THEN "none"
    ELSE IF StartsWith(cur[j].fp, old.fp) THEN "prefix"
    ELSE IF ~NameEquals(cur[j], old) THEN ClearedBy(old, cur, j + 1)
    ELSE IF ~Validate(old) THEN "truncated"
    ELSE ClearedBy(old, cur, j + 1)

\* A variant of the outer loop that collects the lost readers newest first.
RECURSIVE LostFromNewestFirst(_, _, _)
LostFromNewestFirst(prev, cur, i) ==
    IF i > Len(prev) THEN <<>>
    ELSE IF Cleared(prev[i], cur, 1) THEN LostFromNewestFirst(prev, cur, i + 1)
    ELSE LostFromNewestFirst(prev, cur, i + 1) \o <<i>>

\* The outer loop: the indices of PreviousPollFiles, from i on, that no
\* partner clears, in PreviousPollFiles order.
RECURSIVE LostFrom(_, _, _)
LostFrom(prev, cur, i) ==
    IF i > Len(prev) THEN <<>>
    ELSE IF Cleared(prev[i], cur, 1) THEN LostFrom(prev, cur, i + 1)
    ELSE <<i>> \o LostFrom(prev, cur, i + 1)

\* The Manager's part of the state before readLostFiles is called.
InitManagerIdle ==
    /\ pc = "idle"
    /\ lostReaders = <<>>
    /\ spawned = 0
    /\ lostWG = 0
    /\ wpc = [i \in 1..Len(previousPollFiles) |-> "none"]
    /\ outcome = [i \in 1..Len(previousPollFiles) |-> "none"]
    /\ readToEndCalls = [i \in 1..Len(previousPollFiles) |-> 0]
    /\ readingFiles = 0
    /\ curRead = FALSE

InitLost ==
    /\ factory \in {c \in FactoryConfigs :
                        /\ c.FromBeginning
                        /\ c.FingerprintSize = MaxFingerprintSize
                        /\ ~c.HasHeaderConfig}
    /\ InitFactoryIdle({[content |-> <<>>]},
                       {[Fingerprint |-> <<>>, Offset |-> 0, HeaderFinalized |-> FALSE,
                         FileAttributes |-> NilMap]})
    /\ previousPollFiles \in SeqsUpTo(OldReaders, MaxPrev)
    /\ currentPollFiles \in SeqsUpTo(NewReaders, MaxCur)
    /\ InitManagerIdle
    /\ InitOtelcolIdle({[names |-> <<"client">>, keyAt |-> 0, keys |-> NoKeys]})
    /\ InitWriterIdle({"flushFrame"})
    /\ InitHTTPIdle({[attrs |-> <<>>, kind |-> "Client", events |-> <<>>]})

\* A readLostFiles that does not look at DeleteAtEOF.
ReadLostFilesNoDeleteCheck ==
    /\ pc = "idle"
    /\ pc' = "drain"
    /\ lostReaders' = LostFrom(previousPollFiles, currentPollFiles, 1)
    /\ UNCHANGED <<httpVars, writerVars, otelcolVars, factoryVars, trackerVars, spawned, lostWG, wpc, outcome, readToEndCalls,
                   readingFiles, curRead>>

\* readLostFiles, from its entry to the end of the classification loop.
ReadLostFiles ==
    /\ pc = "idle"
    /\ IF factory.DeleteAtEOF
       THEN /\ pc' = "returned"
            /\ UNCHANGED lostReaders
       ELSE /\ pc' = "drain"
            /\ lostReaders' = LostFrom(previousPollFiles, currentPollFiles, 1)
    /\ UNCHANGED <<httpVars, writerVars, otelcolVars, factoryVars, trackerVars, spawned, lostWG, wpc, outcome, readToEndCalls,
                   readingFiles, curRead>>

\* A loop that starts the goroutine without lostWG.Add(1).
SpawnNoAdd ==
    /\ pc = "drain"
    /\ spawned < Len(lostReaders)
    /\ spawned' = spawned + 1
    /\ wpc' = [wpc EXCEPT ![lostReaders[spawned + 1]] = "spawned"]
    /\ UNCHANGED <<httpVars, writerVars, otelcolVars, factoryVars, trackerVars, pc, lostReaders, lostWG, outcome, readToEndCalls,
                   readingFiles, curRead>>

\* One turn of the loop over lostReaders: lostWG.Add(1) and the go statement.
Spawn ==
    /\ pc = "drain"
    /\ spawned < Len(lostReaders)
    /\ spawned' = spawned + 1
    /\ lostWG' = lostWG + 1
    /\ wpc' = [wpc EXCEPT ![lostReaders[spawned + 1]] = "spawned"]
    /\ UNCHANGED <<httpVars, writerVars, otelcolVars, factoryVars, trackerVars, pc, lostReaders, outcome, readToEndCalls,
                   readingFiles, curRead>>

\* The goroutine of reader i: FileconsumerReadingFiles.Add(ctx, 1) and the
\* call of r.ReadToEnd(ctx).
WorkerStart(i) ==
    /\ wpc[i] = "spawned"
    /\ readingFiles' = readingFiles + 1
    /\ readToEndCalls' = [readToEndCalls EXCEPT ![i] = @ + 1]
    /\ wpc' = [wpc EXCEPT ![i] = "reading"]
    /\ UNCHANGED <<httpVars, writerVars, otelcolVars, factoryVars, trackerVars, pc, lostReaders, spawned, lostWG, outcome, curRead>>

\* A goroutine that skips Add(ctx, -1) when its read failed.
WorkerReadToEndLeak(i) ==
    /\ wpc[i] = "reading"
    /\ \E o \in {"ok", "failed"} :
          /\ outcome' = [outcome EXCEPT ![i] = o]
          /\ readingFiles' = IF o = "ok" THEN readingFiles - 1 ELSE readingFiles
    /\ wpc' = [wpc EXCEPT ![i] = "finished"]
    /\ UNCHANGED <<httpVars, writerVars, otelcolVars, factoryVars, trackerVars, pc, lostReaders, spawned, lostWG, readToEndCalls,
                   curRead>>

\* r.ReadToEnd(ctx) returns, having drained the file or stopped at a read or
\* decode error (it returns no value either way), and
\* FileconsumerReadingFiles.Add(ctx, -1) follows.
WorkerReadToEnd(i) ==
    /\ wpc[i] = "reading"
    /\ \E o \in {"ok", "failed"} : outcome' = [outcome EXCEPT ![i] = o]
    /\ readingFiles' = readingFiles - 1
    /\ wpc' = [wpc EXCEPT ![i] = "finished"]
    /\ UNCHANGED <<httpVars, writerVars, otelcolVars, factoryVars, trackerVars, pc, lostReaders, spawned, lostWG, readToEndCalls,
                   curRead>>

\* A goroutine whose Done() is not deferred and is reached only after a
\* read that did not fail.
WorkerDoneOnlyOk(i) ==
    /\ wpc[i] = "finished"
    /\ outcome[i] = "ok"
    /\ lostWG' = lostWG - 1
    /\ wpc' = [wpc EXCEPT ![i] = "done"]
    /\ UNCHANGED <<httpVars, writerVars, otelcolVars, factoryVars, trackerVars, pc, lostReaders, spawned, outcome, readToEndCalls,
                   readingFiles, curRead>>

\* The deferred lostWG.Done() of reader i's goroutine.
WorkerDone(i) ==
    /\ wpc[i] = "finished"
    /\ lostWG' = lostWG - 1
    /\ wpc' = [wpc EXCEPT ![i] = "done"]
    /\ UNCHANGED <<httpVars, writerVars, otelcolVars, factoryVars, trackerVars, pc, lostReaders, spawned, outcome, readToEndCalls,
                   readingFiles, curRead>>

\* A Wait that does not wait.
WaitNoBarrier ==
    /\ pc = "drain"
    /\ spawned = Len(lostReaders)
    /\ pc' = "returned"
    /\ UNCHANGED <<httpVars, writerVars, otelcolVars, factoryVars, trackerVars, lostReaders, spawned, lostWG, wpc, outcome,
                   readToEndCalls, readingFiles, curRead>>

\* lostWG.Wait() after the loop, and the return of readLostFiles.
Wait ==
    /\ pc = "drain"
    /\ spawned = Len(lostReaders)
    /\ lostWG = 0
    /\ pc' = "returned"
    /\ UNCHANGED <<httpVars, writerVars, otelcolVars, factoryVars, trackerVars, lostReaders, spawned, lostWG, wpc, outcome,
                   readToEndCalls, readingFiles, curRead>>

\* The poll goes on after readLostFiles has returned: the current-poll
\* readers are read ("we do this before reading existing files").
ReadCurrentFiles ==
    /\ pc = "returned"
    /\ pc' = "consumed"
    /\ curRead' = TRUE
    /\ UNCHANGED <<httpVars, writerVars, otelcolVars, factoryVars, trackerVars, lostReaders, spawned, lostWG, wpc, outcome,
                   readToEndCalls, readingFiles>>

\* The goroutine readLostFiles starts for reader i of PreviousPollFiles.
Worker(i) ==
    /\ i \in DOMAIN wpc
    /\ (WorkerStart(i) \/ WorkerReadToEnd(i) \/ WorkerDone(i))

NextLost ==
    \/ ReadLostFiles
    \/ Spawn
    \/ \E i \in 1..Len(previousPollFiles) : WorkerStart(i)
    \/ \E i \in 1..Len(previousPollFiles) : WorkerReadToEnd(i)
    \/ \E i \in 1..Len(previousPollFiles) : WorkerDone(i)
    \/ Wait
    \/ ReadCurrentFiles

SpecLost == InitLost /\ [][NextLost]_vars

\* Goroutines are scheduled fairly: the poll's goroutine and every lost-file
\* goroutine keep taking their steps while they can.
SpecLostFair ==
    /\ SpecLost
    /\ WF_vars(ReadLostFiles \/ Spawn \/ Wait \/ ReadCurrentFiles)
    /\ \A i \in 1..MaxPrev : WF_vars(Worker(i))

\* The Factory on its own: one call on a file and a stored Metadata, with no
\* poll under way.
InitFactorySpec ==
    /\ InitFactory
    /\ previousPollFiles = <<>>
    /\ currentPollFiles = <<>>
    /\ InitManagerIdle
    /\ InitOtelcolIdle({[names |-> <<"client">>, keyAt |-> 0, keys |-> NoKeys]})
    /\ InitWriterIdle({"flushFrame"})
    /\ InitHTTPIdle({[attrs |-> <<>>, kind |-> "Client", events |-> <<>>]})

NextFactory ==
    \/ NewReaderFromMetadata /\ UNCHANGED <<trackerVars, lostVars, otelcolVars, writerVars, httpVars>>
    \/ NewReader /\ UNCHANGED <<trackerVars, lostVars, otelcolVars, writerVars, httpVars>>

SpecFactory == InitFactorySpec /\ [][NextFactory]_vars

\* The otelcol context on its own: the gate is set, one path is handed to
\* PathGetSetter, and the GetSetter it returns is used on one request.
InitOtelcol ==
    /\ InitOtelcolIdle(Paths)
    /\ InitWriterIdle({"flushFrame"})
    /\ factory = [FromBeginning |-> TRUE, FingerprintSize |-> MaxFingerprintSize,
                  HasHeaderConfig |-> FALSE, DeleteAtEOF |-> FALSE]
    /\ InitFactoryIdle({[content |-> <<>>]},
                       {[Fingerprint |-> <<>>, Offset |-> 0, HeaderFinalized |-> FALSE,
                         FileAttributes |-> NilMap]})
    /\ previousPollFiles = <<>>
    /\ currentPollFiles = <<>>
    /\ InitManagerIdle
    /\ InitHTTPIdle({[attrs |-> <<>>, kind |-> "Client", events |-> <<>>]})

NextOtelcol ==
    /\ \/ \E b \in BOOLEAN : SetGate(b)
       \/ PathGetSetter
       \/ Getter
       \/ Setter
       \/ GetterAfter
    /\ UNCHANGED <<factoryVars, trackerVars, lostVars, writerVars, httpVars>>

SpecOtelcol == InitOtelcol /\ [][NextOtelcol]_vars

\* The compressingWriter on its own: one writer, of either copy, from
\* newCompressingWriter to Close.
InitWriter ==
    /\ InitWriterIdle(Impls)
    /\ InitOtelcolIdle({[names |-> <<"client">>, keyAt |-> 0, keys |-> NoKeys]})
    /\ factory = [FromBeginning |-> TRUE, FingerprintSize |-> MaxFingerprintSize,
                  HasHeaderConfig |-> FALSE, DeleteAtEOF |-> FALSE]
    /\ InitFactoryIdle({[content |-> <<>>]},
                       {[Fingerprint |-> <<>>, Offset |-> 0, HeaderFinalized |-> FALSE,
                         FileAttributes |-> NilMap]})
    /\ previousPollFiles = <<>>
    /\ currentPollFiles = <<>>
    /\ InitManagerIdle
    /\ InitHTTPIdle({[attrs |-> <<>>, kind |-> "Client", events |-> <<>>]})

NextWriter ==
    /\ \/ Write
       \/ Flush
       \/ Rotate
       \/ Close
    /\ UNCHANGED <<factoryVars, trackerVars, lostVars, otelcolVars, httpVars>>

SpecWriter == InitWriter /\ [][NextWriter]_vars

\* makeHTTP on its own: one span, translated once.
InitHTTP ==
    /\ InitHTTPIdle(Spans)
    /\ InitWriterIdle({"flushFrame"})
    /\ InitOtelcolIdle({[names |-> <<"client">>, keyAt |-> 0, keys |-> NoKeys]})
    /\ factory = [FromBeginning |-> TRUE, FingerprintSize |-> MaxFingerprintSize,
                  HasHeaderConfig |-> FALSE, DeleteAtEOF |-> FALSE]
    /\ InitFactoryIdle({[content |-> <<>>]},
                       {[Fingerprint |-> <<>>, Offset |-> 0, HeaderFinalized |-> FALSE,
                         FileAttributes |-> NilMap]})
    /\ previousPollFiles = <<>>
    /\ currentPollFiles = <<>>
    /\ InitManagerIdle

NextHTTP ==
    /\ MakeHTTP
    /\ UNCHANGED <<factoryVars, trackerVars, lostVars, otelcolVars, writerVars>>

SpecHTTP == InitHTTP /\ [][NextHTTP]_vars

\* ------------------------------------------------- claims on readLostFiles

PrevIdx == 1..Len(previousPollFiles)
CurIdx == 1..Len(currentPollFiles)

\* Reader i of PreviousPollFiles is in the lost set.
InLost(i) == \E k \in 1..Len(lostReaders) : lostReaders[k] = i

\* Reader i was never handed to a lost-file goroutine.
NeverDrained(i) == ~InLost(i) /\ wpc[i] = "none" /\ readToEndCalls[i] = 0

Returned == pc \in {"returned", "consumed"}

\* Some current reader's fingerprint starts with old reader i's fingerprint.
HasPrefixPartner(i) ==
    \E j \in CurIdx : StartsWith(currentPollFiles[j].fp, previousPollFiles[i].fp)

\* Some current reader of the same name finds old reader i truncated in place.
HasTruncatedPartner(i) ==
    \E j \in CurIdx :
        /\ NameEquals(currentPollFiles[j], previousPollFiles[i])
        /\ ~StartsWith(currentPollFiles[j].fp, previousPollFiles[i].fp)
        /\ ~Validate(previousPollFiles[i])

\* C2: an old reader for which some current reader's fingerprint StartsWith
\* its own is never in the lost set and never has ReadToEnd called on it by
\* readLostFiles, whatever the names and the other current readers.
C2_PrefixPartnerNeverLost ==
    \A i \in PrevIdx : HasPrefixPartner(i) => NeverDrained(i)

\* C2 witness: readLostFiles has run its classification and returned; an old
\* reader was kept out of the lost set by a prefix partner of another name
\* that stands second in CurrentPollFiles, behind a same-name partner of
\* another content that did not clear it (Validate() true).
C2_Witness ==
    /\ pc = "returned"
    /\ ~factory.DeleteAtEOF
    /\ \E i \in PrevIdx :
        /\ Len(currentPollFiles) = 2
        /\ StartsWith(currentPollFiles[2].fp, previousPollFiles[i].fp)
        /\ ~NameEquals(currentPollFiles[2], previousPollFiles[i])
        /\ ~StartsWith(currentPollFiles[1].fp, previousPollFiles[i].fp)
        /\ NameEquals(currentPollFiles[1], previousPollFiles[i])
        /\ Validate(previousPollFiles[i])

\* C3 as stated: an old reader still matched at the same path whose
\* current-poll fingerprint is a byte-prefix of its old fingerprint is never
\* in the lost set and never read by a lost-file goroutine.
C3_AsStated ==
    \A i \in PrevIdx :
        (\E j \in CurIdx :
            /\ NameEquals(currentPollFiles[j], previousPollFiles[i])
            /\ StartsWith(previousPollFiles[i].fp, currentPollFiles[j].fp))
        => NeverDrained(i)

\* C3 amended: an old reader still matched at the same path whose old
\* fingerprint is a byte-prefix of its current-poll fingerprint (the file only
\* grew) is never in the lost set and never read by a lost-file goroutine.
C3_GrownSamePathNeverLost ==
    \A i \in PrevIdx :
        (\E j \in CurIdx :
            /\ NameEquals(currentPollFiles[j], previousPollFiles[i])
            /\ StartsWith(currentPollFiles[j].fp, previousPollFiles[i].fp))
        => NeverDrained(i)

\* C3 witness: the classification has run, the call has returned and the
\* current readers are read, for a reader whose file grew at the same path
\* (the new fingerprint strictly longer than the old one).
C3_Witness ==
    /\ Returned
    /\ ~factory.DeleteAtEOF
    /\ \E i \in PrevIdx : \E j \in CurIdx :
        /\ NameEquals(currentPollFiles[j], previousPollFiles[i])
        /\ StartsWith(currentPollFiles[j].fp, previousPollFiles[i].fp)
        /\ Len(currentPollFiles[j].fp) > Len(previousPollFiles[i].fp)
        /\ curRead

\* C4: an old reader with a same-name current partner whose fingerprint does
\* not start with the old one, and whose Validate() is false, is abandoned:
\* not in the lost set, not read by any lost-file goroutine.
C4_TruncatedAbandoned ==
    \A i \in PrevIdx : HasTruncatedPartner(i) => NeverDrained(i)

\* C4 witness: the truncated reader has no prefix partner at all, and the call
\* returned after draining another reader.
C4_Witness ==
    /\ pc = "returned"
    /\ Len(lostReaders) >= 1
    /\ \E i \in PrevIdx : HasTruncatedPartner(i) /\ ~HasPrefixPartner(i)

\* No current-poll reader clears old reader i.
Uncleared(i) == ~HasPrefixPartner(i) /\ ~HasTruncatedPartner(i)

\* C5: with delete-at-EOF disabled, an old reader that no current reader
\* clears is in the lost set once the classification is done, and ReadToEnd
\* has been invoked on it, and has returned, when readLostFiles returns.
C5_UnclearedIsDrained ==
    ~factory.DeleteAtEOF =>
        \A i \in PrevIdx : Uncleared(i) =>
            /\ pc # "idle" => InLost(i)
            /\ Returned => readToEndCalls[i] >= 1 /\ outcome[i] # "none"

\* C5 witness: the rotated-by-rename case: a same-name partner with another
\* content and Validate() true, drained at the return.
C5_Witness ==
    /\ pc = "returned"
    /\ ~factory.DeleteAtEOF
    /\ \E i \in PrevIdx :
        /\ Uncleared(i)
        /\ Validate(previousPollFiles[i])
        /\ \E j \in CurIdx : NameEquals(currentPollFiles[j], previousPollFiles[i])
        /\ readToEndCalls[i] = 1

\* Nothing of the drain has happened.
NoLostActivity ==
    /\ lostReaders = <<>>
    /\ spawned = 0
    /\ lostWG = 0
    /\ readingFiles = 0
    /\ \A i \in PrevIdx : wpc[i] = "none" /\ readToEndCalls[i] = 0 /\ outcome[i] = "none"

\* C6: with DeleteAtEOF enabled readLostFiles does nothing: no reader is ever
\* classified as lost, no worker is started, ReadToEnd is never invoked, and
\* the call is one step that leaves the telemetry count and the tracker as
\* they were.
C6_DeleteAtEOFSkips ==
    /\ [](factory.DeleteAtEOF => NoLostActivity)
    /\ [][factory.DeleteAtEOF /\ pc = "idle" =>
            /\ pc' = "returned"
            /\ UNCHANGED <<trackerVars, lostReaders, spawned, lostWG, wpc, outcome,
                           readToEndCalls, readingFiles>>]_vars

\* C6 witness: the call returned under DeleteAtEOF although an old reader is
\* cleared by no current reader.
C6_Witness ==
    /\ factory.DeleteAtEOF
    /\ pc = "returned"
    /\ \E i \in PrevIdx : Uncleared(i)

\* C7: readLostFiles starts one worker per lost reader, and none for any
\* other reader; it returns only after every worker's ReadToEnd has returned
\* and the worker is done; and under fair scheduling a call that has reached
\* the drain returns.
C7_JoinBarrier ==
    /\ [](Returned =>
            \A i \in PrevIdx :
                IF InLost(i)
                THEN wpc[i] = "done" /\ outcome[i] # "none" /\ readToEndCalls[i] = 1
                ELSE wpc[i] = "none")
    /\ [](pc = "drain" => <>(pc = "returned"))

\* C7 witness: the call has returned with as many lost readers as
\* PreviousPollFiles can hold, at least two.
C7_Witness ==
    /\ pc = "returned"
    /\ Len(lostReaders) >= 2
    /\ Len(lostReaders) = Len(previousPollFiles)

\* C8: once the poll reads a current-poll reader, every lost reader's
\* ReadToEnd has returned and no lost-file goroutine is still running: all
\* that the lost readers emit precedes all that the current readers emit.
C8_LostBeforeCurrent ==
    curRead =>
        \A i \in PrevIdx :
            /\ wpc[i] \in {"none", "done"}
            /\ InLost(i) => wpc[i] = "done" /\ outcome[i] # "none"

\* C8 witness: the current readers are being read after a rotation by rename:
\* the drained reader's name has been inherited by a current reader.
C8_Witness ==
    /\ curRead
    /\ \E i \in PrevIdx :
        /\ InLost(i)
        /\ outcome[i] = "ok"
        /\ \E j \in CurIdx : NameEquals(currentPollFiles[j], previousPollFiles[i])

\* C9: no worker waits on another: a started worker can always take its next
\* step whatever the others have done, a worker whose read failed included;
\* once every worker is done the return is not held up by a failed read; and
\* at the return every lost reader's worker has run to its end, whether its
\* read or another's failed.
C9_DrainIsolation ==
    /\ \A i \in PrevIdx :
        /\ wpc[i] = "spawned" => ENABLED WorkerStart(i)
        /\ wpc[i] = "reading" => ENABLED WorkerReadToEnd(i)
        /\ wpc[i] = "finished" => ENABLED WorkerDone(i)
    /\ (/\ pc = "drain"
        /\ spawned = Len(lostReaders)
        /\ \A i \in PrevIdx : InLost(i) => wpc[i] = "done") => ENABLED Wait
    /\ Returned => \A i \in PrevIdx : InLost(i) => wpc[i] = "done"

\* C9 witness: the call has returned; one worker's read failed and another
\* worker's read went through.
C9_Witness ==
    /\ pc = "returned"
    /\ \E i, k \in PrevIdx :
        /\ outcome[i] = "failed" /\ wpc[i] = "done"
        /\ outcome[k] = "ok" /\ wpc[k] = "done"

\* C10: the in-flight counter's net change is the number of workers between
\* Add(ctx, 1) and Add(ctx, -1): it lies between 0 and the number of lost
\* readers, and is 0 when readLostFiles has returned.
C10_ReadingFilesCounter ==
    /\ readingFiles = Cardinality({i \in PrevIdx : wpc[i] = "reading"})
    /\ 0 <= readingFiles /\ readingFiles <= Len(lostReaders)
    /\ Returned => readingFiles = 0

\* C10 witness: two workers in flight at once, after one of them was started
\* while the other was already reading.
C10_Witness ==
    /\ pc = "drain"
    /\ readingFiles = 2
    /\ Len(lostReaders) = 2

\* CurrentPollFiles in the opposite order.
Reversed(cur) == [j \in 1..Len(cur) |-> cur[Len(cur) + 1 - j]]

\* The classification has run: readLostFiles was called with DeleteAtEOF off.
Classified == pc # "idle" /\ ~factory.DeleteAtEOF

\* Old reader i has a current reader of its name whose fingerprint does not
\* start with its own, and another current reader whose fingerprint does.
TwoPartners(i) ==
    \E j, k \in CurIdx :
        /\ j # k
        /\ NameEquals(currentPollFiles[j], previousPollFiles[i])
        /\ ~StartsWith(currentPollFiles[j].fp, previousPollFiles[i].fp)
        /\ StartsWith(currentPollFiles[k].fp, previousPollFiles[i].fp)

\* The first current reader, in CurrentPollFiles order, that satisfies one of
\* the two clearing conditions for old reader i.
FirstClearing(i) ==
    LET old == previousPollFiles[i]
        clears(j) == \/ StartsWith(currentPollFiles[j].fp, old.fp)
                     \/ NameEquals(currentPollFiles[j], old) /\ ~Validate(old)
    IN  CHOOSE j \in CurIdx : clears(j) /\ \A k \in 1..(j - 1) : ~clears(k)

\* C17 as stated: for an old reader with a same-name partner and a different
\* prefix partner, whether readLostFiles clears it or drains it as lost
\* depends on the order of CurrentPollFiles: the opposite order gives the
\* other outcome.
C17_AsStated ==
    Classified =>
        \A i \in PrevIdx :
            TwoPartners(i) =>
                (InLost(i) <=> Cleared(previousPollFiles[i], Reversed(currentPollFiles), 1))

\* C17: for an old reader with a same-name partner and a different prefix
\* partner, the first current reader in CurrentPollFiles order that satisfies
\* a clearing condition decides only which branch clears it (the fingerprint
\* test, or the truncation test); in either order of CurrentPollFiles it is
\* cleared, it is not in the lost set and ReadToEnd is never called on it.
C17_OrderDecidesBranchOnly ==
    Classified =>
        \A i \in PrevIdx :
            TwoPartners(i) =>
                LET old == previousPollFiles[i]
                    first == currentPollFiles[FirstClearing(i)]
                IN  /\ NeverDrained(i)
                    /\ Cleared(old, Reversed(currentPollFiles), 1)
                    /\ ClearedBy(old, currentPollFiles, 1) =
                            IF StartsWith(first.fp, old.fp) THEN "prefix" ELSE "truncated"
                    /\ ClearedBy(old, Reversed(currentPollFiles), 1) # "none"

\* C17 witness: readLostFiles has returned; an old reader that was truncated
\* in place has its same-name partner first and a prefix partner of another
\* name second, so that the truncation test clears it where the opposite
\* order would have cleared it by the fingerprint test.
C17_Witness ==
    /\ pc = "returned"
    /\ ~factory.DeleteAtEOF
    /\ \E i \in PrevIdx :
        /\ Len(currentPollFiles) = 2
        /\ NameEquals(currentPollFiles[1], previousPollFiles[i])
        /\ ~StartsWith(currentPollFiles[1].fp, previousPollFiles[i].fp)
        /\ ~Validate(previousPollFiles[i])
        /\ ~NameEquals(currentPollFiles[2], previousPollFiles[i])
        /\ StartsWith(currentPollFiles[2].fp, previousPollFiles[i].fp)
        /\ ClearedBy(previousPollFiles[i], currentPollFiles, 1) = "truncated"
        /\ ClearedBy(previousPollFiles[i], Reversed(currentPollFiles), 1) = "prefix"
        /\ ~InLost(i)

\* ------------------------------------------- claims on the Reader's Factory

\* C1 as stated: whenever NewReaderFromMetadata is called with a stored Offset
\* beyond the file's size and no other step of the construction fails, it
\* returns a Reader whose Offset is 0, whether FromBeginning is set or not.
C1_AsStated ==
    (/\ fpc = "NewReaderFromMetadata"
     /\ mAtCall.Offset > FileSize(file)
     /\ err = "none")
    => ~rdr.nil /\ m.Offset = 0

\* A construction has returned, and returned a Reader.
Built == fpc # "ready" /\ err = "none" /\ ~rdr.nil

\* C11: a construction that returns a Reader starts it where the stored Offset
\* says: a stored Offset that is not zero and not beyond the file's size is
\* the Reader's Offset; a zero Offset gives 0 under FromBeginning and the
\* file's size without it.
C11_StartOffsetResolution ==
    Built =>
        /\ (mAtCall.Offset # 0 /\ mAtCall.Offset <= FileSize(file))
                => m.Offset = mAtCall.Offset
        /\ (mAtCall.Offset = 0 /\ factory.FromBeginning) => m.Offset = 0
        /\ (mAtCall.Offset = 0 /\ ~factory.FromBeginning) => m.Offset = FileSize(file)

\* C11 witness: a Reader built without FromBeginning from a zero Offset on a
\* file that has content starts at the file's end.
C11_Witness ==
    /\ Built
    /\ fpc = "NewReaderFromMetadata"
    /\ mAtCall.Offset = 0
    /\ ~factory.FromBeginning
    /\ FileSize(file) > 0
    /\ m.Offset = FileSize(file)

\* The stored state is that of the file as it is now: the stored Fingerprint
\* is the beginning of the file's content and the stored Offset is its size.
StoredAtEnd ==
    /\ fpc = "NewReaderFromMetadata"
    /\ mAtCall.Offset = FileSize(file)
    /\ StartsWith(file.content, mAtCall.Fingerprint)

\* C12: a Reader rebuilt from a Metadata whose Offset is the size of the
\* unchanged file is built, unless a call outside the Factory fails, with its
\* Offset still the file's size, so that nothing is left to read: under either
\* FromBeginning setting, and for an empty file.
C12_ResumeAtEnd ==
    StoredAtEnd =>
        /\ err # "file truncated"
        /\ (ext.failed = "none" /\ err # "panic") => Built
        /\ Built => m.Offset = FileSize(file)

\* C12 witness: under FromBeginning, a Reader rebuilt at the end of a file
\* that has content.
C12_Witness ==
    /\ StoredAtEnd
    /\ Built
    /\ factory.FromBeginning
    /\ FileSize(file) > 0
    /\ m.Offset = FileSize(file)

\* The stored Fingerprint is longer than the configured FingerprintSize.
Shrinks == Len(mAtCall.Fingerprint) > factory.FingerprintSize

\* C13: when NewReaderFromMetadata is given a Fingerprint longer than
\* FingerprintSize it reads the fingerprint again, once, at the configured
\* size; if that one is the beginning of the stored one the Reader is built
\* with it, and it is no longer than FingerprintSize; if it is not, the call
\* fails with "file truncated" and returns no Reader.  A Fingerprint that is
\* not longer is kept as it is and the file is not read again.
C13_FingerprintShrink ==
    fpc = "NewReaderFromMetadata" =>
        /\ Shrinks => ext.reread = 1
        /\ (Shrinks /\ Built) =>
                /\ m.Fingerprint = NewFromFile(file, factory.FingerprintSize)
                /\ Len(m.Fingerprint) <= factory.FingerprintSize
                /\ StartsWith(mAtCall.Fingerprint, m.Fingerprint)
        /\ (/\ Shrinks
            /\ ext.failed # "reread"
            /\ ~StartsWith(mAtCall.Fingerprint, NewFromFile(file, factory.FingerprintSize)))
                => err = "file truncated" /\ rdr.nil
        /\ ~Shrinks =>
                /\ ext.reread = 0
                /\ m.Fingerprint = mAtCall.Fingerprint
                /\ err \notin {"file truncated", "reread fingerprint"}

\* C13 witness: a stored two-byte Fingerprint under FingerprintSize 1, rebuilt
\* on a file that begins with the same byte, gives a Reader with a one-byte
\* Fingerprint.
C13_Witness ==
    /\ fpc = "NewReaderFromMetadata"
    /\ Shrinks
    /\ Built
    /\ Len(mAtCall.Fingerprint) = 2
    /\ Len(m.Fingerprint) = 1
    /\ m.Fingerprint[1] = mAtCall.Fingerprint[1]

\* The attributes of the Metadata after the call are those it was given,
\* with those Attributes.Resolve returned laid over them.
Merged ==
    LET old == mAtCall.FileAttributes.kv
        new == ext.resolved.kv
        merged == m.FileAttributes.kv
    IN  /\ DOMAIN merged = DOMAIN old \cup DOMAIN new
        /\ \A k \in DOMAIN new : merged[k] = new[k]
        /\ \A k \in DOMAIN old \ DOMAIN new : merged[k] = old[k]

\* C14 as stated: for any Metadata given to NewReaderFromMetadata, one
\* without attributes included, a call whose steps all succeed returns a
\* Reader whose FileAttributes hold every key the Metadata had (with its old
\* value unless it was resolved again) and every key that was resolved.
C14_AsStated ==
    (/\ fpc = "NewReaderFromMetadata"
     /\ ext.resolve = 1
     /\ ext.failed = "none")
    => Built /\ Merged

\* The error a construction returns when the named outside call fails.
ErrOf(step) == IF step = "reread" THEN "reread fingerprint" ELSE step

\* The Attributes.Resolve calls a construction has made before it reaches
\* header.NewReader: the one NewReader makes itself.
ResolvesBefore == IF fpc = "NewReader" THEN 1 ELSE 0

\* C15: a construction whose file.Stat, fingerprint re-read, header reader or
\* attribute resolution fails, or whose shorter fingerprint does not match,
\* returns that error and no Reader; the failing call was made once and no
\* later step was made after it.  A construction returns a Reader exactly
\* when it returns no error.
C15_FailuresSurfaced ==
    fpc # "ready" =>
        /\ (err = "none") <=> ~rdr.nil
        /\ err = "file truncated" => rdr.nil /\ ext.stat = 0
        /\ ext.failed # "none" => err = ErrOf(ext.failed) /\ rdr.nil
        /\ ext.reread <= 1 /\ ext.stat <= 1 /\ ext.header <= 1
        /\ ext.resolve <= ResolvesBefore + 1
        /\ ext.failed = "reread" =>
                ext.reread = 1 /\ ext.stat = 0 /\ ext.header = 0
                    /\ ext.resolve = ResolvesBefore
        /\ ext.failed = "stat" =>
                ext.stat = 1 /\ ext.header = 0 /\ ext.resolve = ResolvesBefore
        /\ ext.failed = "header" => ext.header = 1 /\ ext.resolve = ResolvesBefore
        /\ ext.failed = "resolve" => ext.resolve \in {1, ResolvesBefore + 1}

\* C15 witness: NewReaderFromMetadata whose file.Stat failed, after a
\* fingerprint re-read that succeeded, has returned the error and no Reader.
C15_Witness ==
    /\ fpc = "NewReaderFromMetadata"
    /\ ext.failed = "stat"
    /\ ext.reread = 1
    /\ err = "stat"
    /\ rdr.nil

\* C16: a Reader gets a header reader exactly when the Factory has a header
\* configuration and the Metadata's HeaderFinalized is false; header.NewReader
\* is called in that case only, and when it fails the construction returns
\* its error and no Reader.
C16_HeaderReader ==
    fpc # "ready" =>
        /\ Built => (rdr.hasHeaderReader
                        <=> (factory.HasHeaderConfig /\ ~mAtCall.HeaderFinalized))
        /\ mAtCall.HeaderFinalized => ext.header = 0 /\ ~rdr.hasHeaderReader
        /\ ~factory.HasHeaderConfig => ext.header = 0 /\ ~rdr.hasHeaderReader
        /\ ext.failed = "header" => err = "header" /\ rdr.nil

\* C16 witness: under a Factory with a header configuration, a Reader rebuilt
\* from a Metadata whose header was finalized has no header reader.
C16_Witness ==
    /\ fpc = "NewReaderFromMetadata"
    /\ Built
    /\ factory.HasHeaderConfig
    /\ mAtCall.HeaderFinalized
    /\ ~rdr.hasHeaderReader

\* ----------------------------------------- claims on the otelcol context

\* PathGetSetter has been called.
Parsed == op \notin {"init", "SetGate"}

\* PathGetSetter returned a GetSetter and no error.
Accepted == ~getSetter.nil /\ pathErr = "none"

\* PathGetSetter returned an error and no GetSetter.
Refused == getSetter.nil /\ pathErr # "none"

\* The first n segment names of path p are ns.
Begins(p, ns) ==
    /\ Len(p.names) >= Len(ns)
    /\ \A k \in 1..Len(ns) : p.names[k] = ns[k]

\* The seven documented paths: client.addr, and client.metadata,
\* client.auth.attributes and grpc.metadata with keys on the last segment or
\* without keys.
Documented(p) ==
    \/ p.names = <<"client", "addr">> /\ p.keyAt = 0
    \/ p.names = <<"client", "metadata">> /\ p.keyAt \in {0, 2}
    \/ p.names = <<"client", "auth", "attributes">> /\ p.keyAt \in {0, 3}
    \/ p.names = <<"grpc", "metadata">> /\ p.keyAt \in {0, 2}

\* The paths the README's table does not list and C19 names as refused.
NamedAsRefused(p) ==
    \/ p.names[1] \notin {"client", "grpc"}
    \/ p.names \in {<<"client">>, <<"grpc">>, <<"client", "auth">>}
    \/ p.names = <<"client", "addr">> /\ p.keyAt = 2
    \/ /\ Len(p.names) > 2
       /\ \/ Begins(p, <<"client", "addr">>)
          \/ Begins(p, <<"client", "metadata">>)
          \/ Begins(p, <<"grpc", "metadata">>)
    \/ Len(p.names) > 3 /\ Begins(p, <<"client", "auth", "attributes">>)

\* C18: the Setter of every GetSetter that PathGetSetter returns gives back
\* the read-only error of its path, whatever the value, and a Getter called
\* afterwards with the same context returns what it returned before.
C18_ReadOnly ==
    /\ op \in {"Setter", "GetterAfter"} =>
            /\ Accepted
            /\ setErr # "none"
            /\ setErr = ReadOnlyPath(getSetter)
    /\ op = "GetterAfter" => gotAfter = got

\* C18 witness: on a request whose client has an address, the Getter of
\* client.addr returned the address, the Setter returned its error, and the
\* Getter returned the address again.
C18_Witness ==
    /\ op = "GetterAfter"
    /\ getSetter.kind = "accessClientAddr"
    /\ ctx.addr # ""
    /\ got = Str(ctx.addr)
    /\ setErr = "otelcol.client.addr"
    /\ gotAfter = got

\* C19 as stated: with the gate enabled PathGetSetter returns a GetSetter for
\* each of the seven documented paths, and an error and no GetSetter for an
\* unknown first segment, for client, grpc or client.auth without a
\* sub-segment, for keys on client.addr, and for any segment after
\* client.addr, client.metadata, client.auth.attributes or grpc.metadata.
C19_AsStated ==
    (Parsed /\ enableOTelColContext) =>
        /\ Documented(path) => Accepted
        /\ NamedAsRefused(path) => Refused

\* C20: the gate is enabled unless it was set otherwise; while it is disabled
\* PathGetSetter returns the context-disabled error and no GetSetter for
\* every path; while it is enabled PathGetSetter never returns that error,
\* and it returns a GetSetter or an error, never both and never neither.
C20_FeatureGate ==
    /\ op = "init" => enableOTelColContext
    /\ (Parsed /\ ~enableOTelColContext) =>
            getSetter.nil /\ pathErr = "context disabled"
    /\ (Parsed /\ enableOTelColContext) =>
            /\ pathErr # "context disabled"
            /\ Accepted \/ Refused

\* C20 witness: with the gate disabled, PathGetSetter has refused the
\* documented path client.metadata with the context-disabled error.
C20_Witness ==
    /\ op = "PathGetSetter"
    /\ ~enableOTelColContext
    /\ path.names = <<"client", "metadata">>
    /\ Documented(path)
    /\ getSetter.nil
    /\ pathErr = "context disabled"

\* ------------------------------------------ claims on the compressingWriter

\* Every file of the underlying writer holds complete frames only.
EveryFileDecodes == \A k \in 1..Len(base) : Decode(base[k], 1, FALSE).ok

\* C21 as stated: after any sequence of Writes that all returned no error,
\* rotations falling between them or not, every file of the underlying
\* writer is a concatenation of complete frames that decompresses on its own.
C21_AsStated ==
    (/\ cwop \in {"Write", "flush", "rotate"}
     /\ stickyErr = "none"
     /\ written # <<>>)
    => EveryFileDecodes

\* C22: when every Write returned no error and the length of its payload,
\* and Close returned no error, what the underlying writer holds decompresses
\* to the payloads one after the other in the order they were written,
\* whether flush() was called in between or not.
C22_RoundTrip ==
    (/\ cwop = "Close"
     /\ stickyErr = "none"
     /\ ret.err = <<>>)
    => /\ Decode(Flatten(base, 1), 1, FALSE).ok
       /\ Decode(Flatten(base, 1), 1, FALSE).data = written

\* C22 witness: two Writes of different payloads and a Close, all without
\* error, have left the two payloads in order.
C22_Witness ==
    /\ cwop = "Close"
    /\ stickyErr = "none"
    /\ ret.err = <<>>
    /\ written = <<1, 2>>
    /\ Decode(Flatten(base, 1), 1, FALSE).data = <<1, 2>>

\* C23: once a Write has returned an error the writer keeps it: no later
\* call clears it, flush() included, and every later Write returns it with 0
\* bytes written and leaves the encoder and the underlying writer as they
\* are.
C23_StickyError ==
    [][stickyErr # "none" =>
            /\ stickyErr' = stickyErr
            /\ writes' # writes =>
                    /\ ret'.n = 0
                    /\ ret'.err = <<stickyErr>>
                    /\ encoder' = encoder
                    /\ base' = base]_vars

\* C23 witness: a Write has returned, with 0 bytes written, the error of the
\* frame-ending step of the Write before it.
C23_Witness ==
    /\ cwop = "Write"
    /\ writes = 2
    /\ stickyErr \in {"flush", "encoder close"}
    /\ ret.n = 0
    /\ ret.err = <<stickyErr>>
    /\ written = <<>>

\* C24 as stated: after Close has returned, both the encoder and the
\* underlying writer have been closed, whatever Writes, flushes and Write
\* errors came before.
C24_AsStated ==
    cwop = "Close" => encoder.closed /\ baseClosed


\* ------------------------------------- claims on the metadata key getters

\* The Getter of otelcol.client.metadata[key] or otelcol.grpc.metadata[key]
\* has been called, with the one key and no further index.
SingleKeyGot ==
    /\ op = "Getter"
    /\ getSetter.kind \in {"accessClientMetadataKey", "accessGRPCMetadataKey"}
    /\ Len(getSetter.keys) = 1
    /\ getSetter.keys[1].str

\* The values the context of the call holds for the key.
KeyValues ==
    IF getSetter.kind = "accessClientMetadataKey"
    THEN MdGet(ctx.metadata, getSetter.keys[1].s)
    ELSE IF ctx.grpc.ok THEN MdGet(ctx.grpc.md, getSetter.keys[1].s) ELSE <<>>

\* C25: the getters of otelcol.client.metadata[key] and
\* otelcol.grpc.metadata[key], with a single key, return a string when the key
\* has a value, and nil (never an error) when the key is absent or the context
\* carries no metadata.
C25_AsStated ==
    SingleKeyGot =>
        IF Len(KeyValues) = 0 THEN got = Nil ELSE got.kind = "str"


\* ------------------------------------------------ claims on the lost set

\* Some current reader has old reader i's name.
HasSameNamePartner(i) ==
    \E j \in CurIdx : NameEquals(currentPollFiles[j], previousPollFiles[i])

\* CurrentPollFiles in the order f, a permutation of its positions.
Permuted(cur, f) == [j \in 1..Len(cur) |-> cur[f[j]]]

\* C26: with delete-at-EOF disabled and Validate() a fixed value during the
\* call, an old reader is in the lost set exactly when no current reader's
\* fingerprint StartsWith its own and it is not the case that a current reader
\* has its name while its Validate() is false; the lost set is the same for
\* every permutation of CurrentPollFiles.
C26_LostSetCharacterisation ==
    Classified =>
        /\ \A i \in PrevIdx :
            InLost(i) <=>
                /\ ~HasPrefixPartner(i)
                /\ ~(HasSameNamePartner(i) /\ ~Validate(previousPollFiles[i]))
        /\ \A f \in Permutations(CurIdx) :
            LostFrom(previousPollFiles, Permuted(currentPollFiles, f), 1) = lostReaders

\* C26 witness: the classification has run over two current readers and two
\* old ones; one old reader is lost although a current reader has its name
\* (it was moved: Validate() true), the other is cleared by the second current
\* reader only.
C26_Witness ==
    /\ pc = "returned"
    /\ ~factory.DeleteAtEOF
    /\ Len(currentPollFiles) = 2
    /\ Len(previousPollFiles) = 2
    /\ \E i, k \in PrevIdx :
        /\ InLost(i)
        /\ HasSameNamePartner(i)
        /\ Validate(previousPollFiles[i])
        /\ ~InLost(k)
        /\ ~Cleared(previousPollFiles[k], <<currentPollFiles[1]>>, 1)
        /\ Cleared(previousPollFiles[k], <<currentPollFiles[2]>>, 1)

\* C27: in one readLostFiles call the lost set holds positions of
\* PreviousPollFiles only, each at most once and in PreviousPollFiles order;
\* ReadToEnd is invoked at most once on any old reader, never on one that is
\* not lost, and exactly once, by the one worker started for it, on every
\* lost reader by the time the call returns; no current reader is read before
\* the call has returned; and no step adds, removes or reorders readers in the
\* tracker.
C27_OneWorkerPerLostReader ==
    /\ [](/\ \A k \in 1..Len(lostReaders) : lostReaders[k] \in PrevIdx
          /\ \A k, l \in 1..Len(lostReaders) : k < l => lostReaders[k] < lostReaders[l]
          /\ \A i \in PrevIdx :
                /\ readToEndCalls[i] <= 1
                /\ ~InLost(i) => readToEndCalls[i] = 0 /\ wpc[i] = "none"
                /\ Returned /\ InLost(i) => readToEndCalls[i] = 1 /\ wpc[i] = "done"
          /\ spawned <= Len(lostReaders)
          /\ Cardinality({i \in PrevIdx : wpc[i] # "none"}) = spawned
          /\ pc \in {"idle", "drain", "returned"} => ~curRead)
    /\ [][UNCHANGED trackerVars]_vars

\* C27 witness: the call has returned with both old readers lost, in
\* PreviousPollFiles order, each read to the end once by its own worker, with
\* a current reader in the tracker that was not read.
C27_Witness ==
    /\ pc = "returned"
    /\ lostReaders = <<1, 2>>
    /\ \A i \in PrevIdx : readToEndCalls[i] = 1 /\ wpc[i] = "done"
    /\ Len(currentPollFiles) >= 1
    /\ ~curRead


\* ------------------------------------ claims on the caller's Metadata

\* The Offset up to which the stored Metadata accounts for the file as it is
\* now: the stored Offset, or 0 when the file is shorter than that (it was
\* truncated, and all of its content was written since).
AccountedFor ==
    IF mAtCall.Offset > FileSize(file) THEN 0 ELSE mAtCall.Offset

\* C28 as stated: without FromBeginning, a Reader that NewReaderFromMetadata
\* builds from the Metadata of a file that is already tracked never starts
\* beyond bytes appended since the Metadata was recorded: its Offset is not
\* beyond the stored Offset, a stored Offset of 0 included, and it is 0 when
\* the stored Offset was reset because the file is shorter.
C28_AsStated ==
    (/\ fpc = "NewReaderFromMetadata"
     /\ Built
     /\ ~factory.FromBeginning)
    => m.Offset <= AccountedFor

\* C29 as stated: when NewReaderFromMetadata returns an error, the caller's
\* Metadata holds the Fingerprint, the Offset and the FileAttributes it held
\* before the call.
C29_AsStated ==
    (/\ fpc = "NewReaderFromMetadata"
     /\ err \notin {"none", "panic"})
    => /\ m.Fingerprint = mAtCall.Fingerprint
       /\ m.Offset = mAtCall.Offset
       /\ m.FileAttributes = mAtCall.FileAttributes


\* ------------------------------------------------------ claims on makeHTTP

\* The value of attribute a has gone into the HTTP data makeHTTP returned.
Reflected(a) ==
    /\ ~info.nil
    /\ \/ info.Method = <<ValueStr(a.value)>>
       \/ info.UserAgent = <<ValueStr(a.value)>>
       \/ a.value.type = "Int" /\ info.Status = <<ValueInt(a.value)>>
       \/ info.ClientIP = <<ValueStr(a.value)>>
       \/ /\ info.URL # <<>>
          /\ \E k \in 1..Len(info.URL[1]) :
                \/ info.URL[1][k] = ValueStr(a.value)
                \/ a.value.type = "Int" /\ info.URL[1][k] = FormatInt(ValueInt(a.value))

\* Attribute a is in the filtered map, with its value.
Kept(a) == a.key \in DOMAIN filtered /\ filtered[a.key] = a.value

\* C30 as stated: makeHTTP partitions the span's attributes: each one is in
\* the filtered map or its value is in the HTTP data; when makeHTTP returns no
\* HTTP data, the filtered map holds every attribute of the span.
C30_AsStated ==
    hpc = "makeHTTP" =>
        /\ \A i \in 1..Len(span.attrs) : Kept(span.attrs[i]) \/ Reflected(span.attrs[i])
        /\ info.nil => \A i \in 1..Len(span.attrs) : Kept(span.attrs[i])

====
